---------------------------- MODULE Spec2Model ----------------------------
(***************************************************************************)
(* A model of kiro2api: the usage prober and the quota arithmetic          *)
(* (auth/usage_checker.go, types/usage_limits.go), the credential store    *)
(* and its HTTP handlers (server/config_handler.go), the runtime           *)
(* credential loader (auth, loadConfigs) and the /v1/messages streaming    *)
(* and non-streaming handlers.                                             *)
(*                                                                         *)
(* The module holds six state machines over one set of variables.  Each   *)
(* specification drives one of them and leaves the others' variables at    *)
(* their idle values:                                                      *)
(*   SpecUsage   one usage probe followed by TokenWithUsage's count        *)
(*   SpecStore   concurrent requests on one ConfigStore and its file       *)
(*   SpecStream  one POST /v1/messages request, streaming or not           *)
(*   SpecAdmin   admin requests served one after another: the config CRUD, *)
(*               POST /api/config/import and GET /api/tokens               *)
(*   SpecRoute   the POST /v1/messages route handler up to its dispatch    *)
(*   SpecMask    maskEmail applied to two e-mail addresses                 *)
(***************************************************************************)
EXTENDS Integers, Sequences, FiniteSets, TLC

VARIABLES
    \* ---- usage prober ----
    u_pc,        \* "start" | "probed" | "counted"
    u_resp,      \* what the upstream usage endpoint answers
    u_result,    \* *UsageCheckResult returned by CheckUsageLimitsWithStatus
    u_avail,     \* TokenWithUsage.GetAvailableCount() over the same UsageLimits
    \* ---- POST /v1/messages: handleGenericStreamRequest, handleNonStreamRequest ----
    m_pc,        \* the handler's position
    m_req,       \* the normalized AnthropicRequest
    m_inputTokens, \* inputTokens, computed at entry
    m_client,    \* "connected" | "gone": whether writes to the client succeed
    m_sent,      \* the SSE events written to the client, in order
    m_consumed,  \* the upstream semantic events read so far
    m_session,   \* the stream session (StreamProcessorContext)
    m_outcome,   \* which return of the handler ended the request
    m_ns,        \* the non-streaming handler's locals and its JSON response
    m_log,       \* history: the streaming handler's calls so far, in order
    \* ---- ConfigStore, its file and the tasks serving config requests ----
    s_configs,   \* cs.configs
    s_mutex,     \* cs.mutex: the writer holding it and the readers
    s_file,      \* the credential file at cs.filePath
    s_w,         \* each task's position, request, locals and last response
    s_started,   \* the number of requests accepted so far
    s_hist,      \* history: the initial list, the returned mutations, the lists
                 \* the store held when a writer left, the latest save
    \* ---- admin requests served one at a time ----
    a_pc,        \* "idle", or the handler whose loop is running
    a_configs,   \* configStore.configs
    a_file,      \* the credential file
    a_env,       \* KIRO_AUTH_TOKEN and the file it may name
    a_req,       \* the running request: its list and the loop index
    a_items,     \* the loop's results so far (tokenList, results)
    a_resp,      \* the last response written
    a_started,   \* the number of requests accepted so far
    a_log,       \* history: the refreshes of the running request, the store
                 \* and the file as the last request found them
    a_init,      \* what InitConfigStore left: its error, and whether the
                 \* configStore pointer is nil
    \* ---- the POST /v1/messages route handler ----
    r_pc,        \* "start" | "done"
    r_raw,       \* the request body as the client sent it
    r_req,       \* the request after tool canonicalization
    r_resp,      \* the status answered and the handler dispatched to
    \* ---- maskEmail ----
    e_pc,        \* "start" | "done"
    e_email,     \* the address given to maskEmail
    e_other,     \* a second address given to maskEmail
    e_masked,    \* maskEmail(e_email)
    e_maskedOther \* maskEmail(e_other)

usageVars == <<u_pc, u_resp, u_result, u_avail>>

msgVars == <<m_pc, m_req, m_inputTokens, m_client, m_sent, m_consumed, m_session,
             m_outcome, m_ns, m_log>>

storeVars == <<s_configs, s_mutex, s_file, s_w, s_started, s_hist>>

adminVars == <<a_pc, a_configs, a_file, a_env, a_req, a_items, a_resp, a_started,
               a_log, a_init>>

routeVars == <<r_pc, r_raw, r_req, r_resp>>

maskVars == <<e_pc, e_email, e_other, e_masked, e_maskedOther>>

\* What each state machine leaves alone.
notUsageVars == <<msgVars, storeVars, adminVars, routeVars, maskVars>>

notMsgVars == <<usageVars, storeVars, adminVars, routeVars, maskVars>>

notStoreVars == <<usageVars, msgVars, adminVars, routeVars, maskVars>>

notAdminVars == <<usageVars, msgVars, storeVars, routeVars, maskVars>>

notRouteVars == <<usageVars, msgVars, storeVars, adminVars, maskVars>>

notMaskVars == <<usageVars, msgVars, storeVars, adminVars, routeVars>>

vars == <<u_pc, u_resp, u_result, u_avail,
          m_pc, m_req, m_inputTokens, m_client, m_sent, m_consumed, m_session,
          m_outcome, m_ns, m_log,
          s_configs, s_mutex, s_file, s_w, s_started, s_hist,
          a_pc, a_configs, a_file, a_env, a_req, a_items, a_resp, a_started, a_log,
          a_init,
          r_pc, r_raw, r_req, r_resp,
          e_pc, e_email, e_other, e_masked, e_maskedOther>>

(***************************************************************************)
(* Bounds                                                                  *)
(***************************************************************************)
\* Quota quantities (usageLimit, currentUsage) range over 0..MaxAmount.
MaxAmount == 1
\* Longest bonuses list of a usage breakdown.
MaxBonuses == 1
\* Most semantic events one upstream response carries.
MaxUpstream == 3
\* Requests the config API serves in one run.
MaxRequests == 2
\* Largest :index path parameter a client sends.
MaxIndex == 1
\* Admin requests served one after another in one run.
MaxAdminRequests == 2
\* Most records the credential file starts with and the store grows to.
MaxRecords == 2
\* Longest tools array of a request.
MaxTools == 2
\* Most labels of an e-mail address's domain.
MaxLabels == 3

(***************************************************************************)
(* Usage prober: auth/usage_checker.go, types/usage_limits.go              *)
(***************************************************************************)
AccountStatusActive == "active"
AccountStatusExhausted == "exhausted"
AccountStatusBanned == "banned"
AccountStatusError == "error"

Amounts == 0..MaxAmount

\* types.BonusInfo: the two quantities the code reads.
BonusInfo == [UsageLimit : Amounts, CurrentUsage : Amounts]

RECURSIVE SeqsUpTo(_, _)
SeqsUpTo(S, n) ==
    IF n = 0 THEN {<<>>}
    ELSE LET shorter == SeqsUpTo(S, n - 1)
         IN  shorter \cup {Append(s, x) : s \in {t \in shorter : Len(t) = n - 1}, x \in S}

\* types.FreeTrialInfo behind the pointer of UsageBreakdown.FreeTrialInfo;
\* isNil models the nil pointer (the key is absent from the JSON).  A trial
\* that is not ACTIVE has quota left, so that counting it shows.
FreeTrialInfo ==
    {[isNil |-> TRUE, FreeTrialStatus |-> "", UsageLimitWithPrecision |-> 0,
      CurrentUsageWithPrecision |-> 0],
     [isNil |-> FALSE, FreeTrialStatus |-> "EXPIRED",
      UsageLimitWithPrecision |-> MaxAmount, CurrentUsageWithPrecision |-> 0]}
    \cup [isNil : {FALSE}, FreeTrialStatus : {"ACTIVE"},
          UsageLimitWithPrecision : Amounts, CurrentUsageWithPrecision : Amounts]

\* types.UsageBreakdown: the fields the prober and the token read.
UsageBreakdown ==
    [ResourceType : {"CREDIT"},
     UsageLimitWithPrecision : Amounts,
     CurrentUsageWithPrecision : Amounts,
     FreeTrialInfo : FreeTrialInfo,
     Bonuses : SeqsUpTo(BonusInfo, MaxBonuses)]

\* A breakdown of another resource type, and a second CREDIT breakdown: both
\* loops stop at the first CREDIT entry, so neither may count.
OtherBreakdown ==
    [ResourceType |-> "AGENTIC_REQUEST", UsageLimitWithPrecision |-> MaxAmount,
     CurrentUsageWithPrecision |-> 0,
     FreeTrialInfo |-> [isNil |-> FALSE, FreeTrialStatus |-> "ACTIVE",
                        UsageLimitWithPrecision |-> MaxAmount,
                        CurrentUsageWithPrecision |-> 0],
     Bonuses |-> <<[UsageLimit |-> MaxAmount, CurrentUsage |-> 0]>>]

SecondCredit ==
    [ResourceType |-> "CREDIT", UsageLimitWithPrecision |-> MaxAmount,
     CurrentUsageWithPrecision |-> 0,
     FreeTrialInfo |-> [isNil |-> TRUE, FreeTrialStatus |-> "",
                        UsageLimitWithPrecision |-> 0,
                        CurrentUsageWithPrecision |-> 0],
     Bonuses |-> <<>>]

\* UsageLimits.UsageBreakdownList of a well-formed body: no CREDIT entry, one,
\* one behind another resource's entry, one before a second CREDIT entry.
UsageBreakdownLists ==
    {<<>>, <<OtherBreakdown>>}
    \cup {<<b>> : b \in UsageBreakdown}
    \cup {<<OtherBreakdown, b>> : b \in {c \in UsageBreakdown : c.Bonuses = <<>>}}
    \cup {<<b, SecondCredit>> : b \in {c \in UsageBreakdown : c.Bonuses = <<>>}}

\* The "reason" key of a JSON object body: absent, present with a value that
\* is not a JSON string, or present with a string.
ReasonAbsent == "<absent>"
ReasonNotString == "<not a string>"
ReasonStrings == {"TEMPORARILY_SUSPENDED", "ABUSE"}
ReasonValues == {ReasonAbsent, ReasonNotString} \cup ReasonStrings

\* A response body as the two json.Unmarshal calls see it:
\*   json    it is JSON at all
\*   object  its top level is a JSON object (a map[string]any can hold it)
\*   typed   the keys UsageLimits declares have values of the declared types
\*   reason  its "reason" key
\*   list    its usageBreakdownList when typed
Body(json, object, typed, reason, list) ==
    [json |-> json, object |-> object, typed |-> typed, reason |-> reason, list |-> list]

GarbageBody == Body(FALSE, FALSE, FALSE, ReasonAbsent, <<>>)
ArrayBody == Body(TRUE, FALSE, FALSE, ReasonAbsent, <<>>)

\* Object bodies of every reason kind, with and without well-typed usage keys.
PlainBodies ==
    {GarbageBody, ArrayBody}
    \cup {Body(TRUE, TRUE, t, r, l) : t \in BOOLEAN, r \in ReasonValues,
                                      l \in {<<>>, <<SecondCredit>>}}

\* Well-formed usage bodies over every breakdown list of the bounds.
UsageBodies == {Body(TRUE, TRUE, TRUE, ReasonAbsent, l) : l \in UsageBreakdownLists}

StatusCodes == {200, 401, 403}

\* What one GET to the usage endpoint yields: httpClient.Do fails
\* ("do_error"), io.ReadAll fails ("read_error"), or a status code and body.
UsageResponses ==
    [transport : {"do_error", "read_error"}, code : {0}, body : {GarbageBody}]
    \cup [transport : {"ok"}, code : StatusCodes, body : PlainBodies]
    \cup [transport : {"ok"}, code : {200}, body : UsageBodies]

\* utils.SafeUnmarshal(body, &errorResp) with errorResp a map[string]any.
UnmarshalsToMap(body) == body.json /\ body.object

\* utils.SafeUnmarshal(body, &usageLimits) with usageLimits a types.UsageLimits.
UnmarshalsToUsageLimits(body) == body.json /\ body.object /\ body.typed

\* reason, ok := errorResp["reason"].(string)
ReasonIsString(body) == body.reason \in ReasonStrings

RECURSIVE SumBonusLimit(_)
SumBonusLimit(bonuses) ==
    IF bonuses = <<>> THEN 0
    ELSE Head(bonuses).UsageLimit + SumBonusLimit(Tail(bonuses))

RECURSIVE SumBonusUsage(_)
SumBonusUsage(bonuses) ==
    IF bonuses = <<>> THEN 0
    ELSE Head(bonuses).CurrentUsage + SumBonusUsage(Tail(bonuses))

FreeTrialActive(breakdown) ==
    /\ ~breakdown.FreeTrialInfo.isNil
    /\ breakdown.FreeTrialInfo.FreeTrialStatus = "ACTIVE"

\* The index of the first CREDIT breakdown, 0 when there is none: both loops
\* over UsageBreakdownList act on that entry and break.
RECURSIVE FirstCreditFrom(_, _)
FirstCreditFrom(list, i) ==
    IF i > Len(list) THEN 0
    ELSE IF list[i].ResourceType = "CREDIT" THEN i
    ELSE FirstCreditFrom(list, i + 1)

FirstCredit(list) == FirstCreditFrom(list, 1)

\* The prober's loop over the bonuses of the CREDIT breakdown.
ProberBonusLimit(bonuses) == SumBonusLimit(bonuses)

ProberBonusUsage(bonuses) == SumBonusUsage(bonuses)

\* result.TotalLimit of the CREDIT breakdown.
ProberTotalLimit(breakdown) ==
    breakdown.UsageLimitWithPrecision
    + (IF FreeTrialActive(breakdown)
       THEN breakdown.FreeTrialInfo.UsageLimitWithPrecision ELSE 0)
    + ProberBonusLimit(breakdown.Bonuses)

\* result.TotalUsed of the CREDIT breakdown.
ProberTotalUsed(breakdown) ==
    breakdown.CurrentUsageWithPrecision
    + (IF FreeTrialActive(breakdown)
       THEN breakdown.FreeTrialInfo.CurrentUsageWithPrecision ELSE 0)
    + ProberBonusUsage(breakdown.Bonuses)

UsageCheckResult(status, banReason, hasLimits, list, available, limit, used, err) ==
    [Status |-> status, BanReason |-> banReason, hasUsageLimits |-> hasLimits,
     UsageBreakdownList |-> list, Available |-> available, TotalLimit |-> limit,
     TotalUsed |-> used, Error |-> err]

\* The zero result every early return starts from: Status error, no limits.
ErrorResult(err) ==
    UsageCheckResult(AccountStatusError, "", FALSE, <<>>, 0, 0, 0, err)

\* "if result.Available > 0 { active } else { exhausted }"
MutStatusOfAvailable(available) ==
    IF available >= 0 THEN AccountStatusActive ELSE AccountStatusExhausted

StatusOfAvailable(available) ==
    IF available > 0 THEN AccountStatusActive ELSE AccountStatusExhausted

\* The totals of a parsed body: zero when no CREDIT breakdown exists.
ComputeUsage(list) ==
    LET i == FirstCredit(list)
        limit == IF i = 0 THEN 0 ELSE ProberTotalLimit(list[i])
        used == IF i = 0 THEN 0 ELSE ProberTotalUsed(list[i])
        raw == limit - used
        available == IF raw < 0 THEN 0 ELSE raw
    IN  UsageCheckResult(StatusOfAvailable(available), "", TRUE, list,
                         available, limit, used, "")

\* CheckUsageLimitsWithStatus, one return per early return of the code.  The
\* request is built from a constant URL, so http.NewRequest cannot fail.
CheckUsageLimitsWithStatus(resp) ==
    IF resp.transport = "do_error" THEN ErrorResult("request failed")
    ELSE IF resp.transport = "read_error" THEN ErrorResult("read failed")
    ELSE IF resp.code # 200 THEN
        IF UnmarshalsToMap(resp.body) /\ ReasonIsString(resp.body)
        THEN UsageCheckResult(AccountStatusBanned, resp.body.reason, FALSE, <<>>,
                              0, 0, 0, "banned")
        ELSE ErrorResult("bad status")
    ELSE IF ~UnmarshalsToUsageLimits(resp.body) THEN ErrorResult("parse failed")
    ELSE ComputeUsage(resp.body.list)

\* TokenWithUsage.GetAvailableCount: hasLimits is t.UsageLimits # nil.
GetAvailableCount(hasLimits, list) ==
    IF ~hasLimits THEN 0
    ELSE LET i == FirstCredit(list)
         IN  IF i = 0 THEN 0
             ELSE LET breakdown == list[i]
                      freeTrialAvailable ==
                          IF FreeTrialActive(breakdown)
                          THEN breakdown.FreeTrialInfo.UsageLimitWithPrecision
                               - breakdown.FreeTrialInfo.CurrentUsageWithPrecision
                          ELSE 0
                      baseAvailable == breakdown.UsageLimitWithPrecision
                                       - breakdown.CurrentUsageWithPrecision
                      totalAvailable == freeTrialAvailable + baseAvailable
                  IN  IF totalAvailable < 0 THEN 0 ELSE totalAvailable

NoResult == ErrorResult("")

UsageInit ==
    /\ u_pc = "start"
    /\ u_resp \in UsageResponses
    /\ u_result = NoResult
    /\ u_avail = 0

UsageIdle ==
    /\ u_pc = "idle"
    /\ u_resp = [transport |-> "do_error", code |-> 0, body |-> GarbageBody]
    /\ u_result = NoResult
    /\ u_avail = 0

\* checker.CheckUsageLimitsWithStatus(tokenInfo)
UsageProbe ==
    /\ u_pc = "start"
    /\ u_result' = CheckUsageLimitsWithStatus(u_resp)
    /\ u_pc' = "probed"
    /\ UNCHANGED <<u_resp, u_avail>>
    /\ UNCHANGED notUsageVars

\* A TokenWithUsage holding the probe's UsageLimits answers GetAvailableCount.
TokenGetAvailableCount ==
    /\ u_pc = "probed"
    /\ u_avail' = GetAvailableCount(u_result.hasUsageLimits, u_result.UsageBreakdownList)
    /\ u_pc' = "counted"
    /\ UNCHANGED <<u_resp, u_result>>
    /\ UNCHANGED notUsageVars

UsageNext == UsageProbe \/ TokenGetAvailableCount

(***************************************************************************)
(* POST /v1/messages: the request, the upstream events, the SSE events     *)
(***************************************************************************)
ToolIds == {"T1", "T2"}

\* The semantic events the upstream parser yields (spec 4.7): incremental
\* assistant text, possibly empty, and tool-use lifecycle events carrying a
\* toolUseId, possibly an input fragment, and the stop mark.
TextEvent(text) == [kind |-> "text", text |-> text, id |-> "", chunk |-> FALSE, stop |-> FALSE]

ToolEvent(id, chunk, stop) == [kind |-> "tool", text |-> "", id |-> id, chunk |-> chunk, stop |-> stop]

\* A tool event either carries an input fragment or marks the input final.
UpstreamEvents ==
    {TextEvent(t) : t \in {"", "hi"}}
    \cup {ToolEvent(id, ~s, s) : id \in ToolIds, s \in BOOLEAN}

\* types.AnthropicRequest after normalization: the stream flag, the size of
\* its system and message text, and the names of its tools.
Requests ==
    {[stream |-> s, bytes |-> 3, tools |-> <<>>] : s \in BOOLEAN}
    \cup [stream : BOOLEAN, bytes : {8},
          tools : {<<"get_weather">>, <<"web_search", "get_weather">>}]

\* filterSupportedTools: drops the tools the upstream does not support.
SupportedTool(name) == name # "web_search"

filterSupportedTools(tools) == SelectSeq(tools, SupportedTool)

\* types.CountTokensRequest built at the handlers' entry.
CountTokensRequest(req) == [bytes |-> req.bytes, tools |-> filterSupportedTools(req.tools)]

\* utils.TokenEstimator.EstimateTokens (spec 4.6): about one token per four
\* bytes of text, plus a constant per message and per tool schema.
EstimateTokens(countReq) == (countReq.bytes + 3) \div 4 + 3 + 10 * Len(countReq.tools)

\* One SSE event as the client receives it.
Event(type, index, block, id, text, stopReason, inputTokens, outputTokens) ==
    [type |-> type, index |-> index, block |-> block, id |-> id, text |-> text,
     stop_reason |-> stopReason, input_tokens |-> inputTokens,
     output_tokens |-> outputTokens]

MessageStart(messageId, inputTokens) ==
    Event("message_start", -1, "", messageId, "", "", inputTokens, 0)

Ping == Event("ping", -1, "", "", "", "", 0, 0)

ContentBlockStart(index, block, id) ==
    Event("content_block_start", index, block, id, "", "", 0, 0)

ContentBlockDelta(index, block, text) ==
    Event("content_block_delta", index, block, "", text, "", 0, 0)

ContentBlockStop(index) == Event("content_block_stop", index, "", "", "", "", 0, 0)

MessageDelta(stopReason, inputTokens, outputTokens) ==
    Event("message_delta", -1, "", "", "", stopReason, inputTokens, outputTokens)

MessageStop == Event("message_stop", -1, "", "", "", "", 0, 0)

ErrorEvent == Event("error", -1, "", "", "", "", 0, 0)

\* The message id the handler generates from the clock.
MessageID == "msg_1"

\* createAnthropicStreamEvents with a text block opened up front: the defect
\* its comment says was removed.
MutcreateAnthropicStreamEvents(messageId, inputTokens, model) ==
    <<MessageStart(messageId, inputTokens), Ping, ContentBlockStart(0, "text", "")>>

\* createAnthropicStreamEvents: message_start and ping, no content_block_start.
createAnthropicStreamEvents(messageId, inputTokens, model) ==
    <<MessageStart(messageId, inputTokens), Ping>>

\* createAnthropicFinalEvents with its first two arguments taken in the
\* wrong order.
MutcreateAnthropicFinalEvents(outputTokens, inputTokens, stopReason) ==
    <<MessageDelta(stopReason, outputTokens, inputTokens), MessageStop>>

\* createAnthropicFinalEvents: message_delta with the usage, then message_stop;
\* no content_block_stop of its own.
createAnthropicFinalEvents(outputTokens, inputTokens, stopReason) ==
    <<MessageDelta(stopReason, inputTokens, outputTokens), MessageStop>>

(***************************************************************************)
(* The stream session and the SSE state machine (spec 4.8)                 *)
(***************************************************************************)
NoIndex == -1

\* NewStreamProcessorContext: no block open, no index allocated.
NewSession(inputTokens) ==
    [inputTokens |-> inputTokens, outputTokens |-> 0, activeBlocks |-> {},
     nextIndex |-> 0, textIndex |-> NoIndex,
     toolIndex |-> [id \in ToolIds |-> NoIndex], sawToolUse |-> FALSE]

\* Rule 1: text opens its block lazily, on the first non-empty delta.
HandleText(session, e) ==
    IF e.text = "" THEN [session |-> session, events |-> <<>>]
    ELSE IF session.textIndex \in session.activeBlocks
    THEN [session |-> [session EXCEPT !.outputTokens = @ + 1],
          events |-> <<ContentBlockDelta(session.textIndex, "text_delta", e.text)>>]
    ELSE LET i == session.nextIndex
         IN  [session |-> [session EXCEPT !.nextIndex = i + 1, !.textIndex = i,
                                          !.activeBlocks = @ \cup {i},
                                          !.outputTokens = @ + 1],
              events |-> <<ContentBlockStart(i, "text", ""),
                           ContentBlockDelta(i, "text_delta", e.text)>>]

\* Rules 2 and 3: a tool block starts on the first event naming its id, takes
\* one input_json_delta per fragment, and stops when its arguments are final.
\* An event for a tool whose block has stopped emits nothing.
HandleTool(session, e) ==
    LET seen == session.toolIndex[e.id] # NoIndex
        i == IF seen THEN session.toolIndex[e.id] ELSE session.nextIndex
        open == ~seen \/ i \in session.activeBlocks
        started == IF seen THEN <<>> ELSE <<ContentBlockStart(i, "tool_use", e.id)>>
        delta == IF e.chunk THEN <<ContentBlockDelta(i, "input_json_delta", e.id)>> ELSE <<>>
        stopped == IF e.stop THEN <<ContentBlockStop(i)>> ELSE <<>>
    IN  IF ~open THEN [session |-> session, events |-> <<>>]
        ELSE [session |->
                  [session EXCEPT
                       !.nextIndex = IF seen THEN @ ELSE @ + 1,
                       !.toolIndex[e.id] = i,
                       !.sawToolUse = TRUE,
                       !.outputTokens = @ + (IF seen THEN 0 ELSE 1) + (IF e.chunk THEN 1 ELSE 0),
                       !.activeBlocks = IF e.stop THEN @ \ {i} ELSE @ \cup {i}],
              events |-> started \o delta \o stopped]

HandleUpstreamEvent(session, e) ==
    IF e.kind = "text" THEN HandleText(session, e) ELSE HandleTool(session, e)

\* The elements of a set of integers in ascending order.
RECURSIVE Ascending(_)
Ascending(S) ==
    IF S = {} THEN <<>>
    ELSE LET least == CHOOSE x \in S : \A y \in S : x <= y
         IN  <<least>> \o Ascending(S \ {least})

RECURSIVE StopEvents(_)
StopEvents(indices) ==
    IF indices = <<>> THEN <<>>
    ELSE <<ContentBlockStop(Head(indices))>> \o StopEvents(Tail(indices))

\* Rule 5: tool_use when a tool was used and tools were requested.
DetermineStopReason(req, sawToolUse) ==
    IF sawToolUse /\ req.tools # <<>> THEN "tool_use" ELSE "end_turn"

\* Rule 6: at least one output token once a block was emitted.
FinalOutputTokens(session) ==
    IF session.outputTokens < 1 /\ session.nextIndex > 0 THEN 1 ELSE session.outputTokens

\* sendFinalEvents: rule 4, a content_block_stop for every block still open,
\* then the events of createAnthropicFinalEvents.
FinalEvents(req, session) ==
    StopEvents(Ascending(session.activeBlocks))
    \o createAnthropicFinalEvents(FinalOutputTokens(session), session.inputTokens,
                                  DetermineStopReason(req, session.sawToolUse))

(***************************************************************************)
(* handleGenericStreamRequest                                              *)
(***************************************************************************)
NoNonStream ==
    [parser |-> "none", timer |-> "idle", body |-> <<>>,
     goResult |-> "nil", goErr |-> "", result |-> "nil", err |-> "",
     http |-> 0, responses |-> 0, content |-> <<>>, output_tokens |-> 0]

MsgInit ==
    /\ m_pc = "entry"
    /\ m_req \in Requests
    /\ m_inputTokens = 0
    /\ m_client = "connected"
    /\ m_sent = <<>>
    /\ m_consumed = <<>>
    /\ m_session = NewSession(0)
    /\ m_outcome = "none"
    /\ m_ns = NoNonStream
    /\ m_log = <<>>

MsgIdle ==
    /\ m_pc = "idle"
    /\ m_req = [stream |-> FALSE, bytes |-> 3, tools |-> <<>>]
    /\ m_inputTokens = 0
    /\ m_client = "connected"
    /\ m_sent = <<>>
    /\ m_consumed = <<>>
    /\ m_session = NewSession(0)
    /\ m_outcome = "none"
    /\ m_ns = NoNonStream
    /\ m_log = <<>>

\* The handler returns: nothing more is written for this request.
Return(outcome) ==
    /\ m_pc' = "done"
    /\ m_outcome' = outcome

\* Writing `events` to the client in order.  Every write succeeds while the
\* client is connected; the client may go away before any of them, and the
\* first write after that fails, which ends the handler with `failed`.
SendEvents(events, nextPc, failed) ==
    \/ /\ events = <<>> \/ m_client = "connected"
       /\ m_sent' = m_sent \o events
       /\ m_pc' = nextPc
       /\ m_outcome' = IF nextPc = "done" THEN "ok" ELSE m_outcome
       /\ UNCHANGED m_client
    \/ /\ events # <<>>
       /\ \E k \in 0..(Len(events) - 1) :
              /\ k = 0 \/ m_client = "connected"
              /\ m_sent' = m_sent \o SubSeq(events, 1, k)
       /\ m_client' = "gone"
       /\ Return(failed)

\* Both handlers open with estimator.EstimateTokens(countReq); the route
\* handler then picked the streaming or the non-streaming one.
HandlerEntry ==
    /\ m_pc = "entry"
    /\ m_inputTokens' = EstimateTokens(CountTokensRequest(m_req))
    /\ m_pc' = IF m_req.stream THEN "sse_init" ELSE "ns_exec"
    /\ UNCHANGED <<m_req, m_client, m_sent, m_consumed, m_session, m_outcome, m_ns>>
    /\ UNCHANGED m_log
    /\ UNCHANGED notMsgVars

\* initializeSSEResponse succeeds.
InitializeSSEResponse ==
    /\ m_pc = "sse_init"
    /\ m_pc' = "exec"
    /\ UNCHANGED <<m_req, m_inputTokens, m_client, m_sent, m_consumed, m_session,
                   m_outcome, m_ns>>
    /\ m_log' = Append(m_log, "initializeSSEResponse")
    /\ UNCHANGED notMsgVars

\* initializeSSEResponse fails and the handler goes on instead of returning.
MutInitializeSSEFails ==
    /\ m_pc = "sse_init"
    /\ m_sent' = IF m_client = "connected" THEN Append(m_sent, ErrorEvent) ELSE m_sent
    /\ m_pc' = "exec"
    /\ UNCHANGED <<m_req, m_inputTokens, m_client, m_consumed, m_session, m_outcome,
                   m_ns>>
    /\ m_log' = Append(m_log, "initializeSSEResponse failed")
    /\ UNCHANGED notMsgVars

\* initializeSSEResponse fails: sender.SendError, return.
InitializeSSEFails ==
    /\ m_pc = "sse_init"
    /\ m_sent' = IF m_client = "connected" THEN Append(m_sent, ErrorEvent) ELSE m_sent
    /\ Return("sse_init_failed")
    /\ UNCHANGED <<m_req, m_inputTokens, m_client, m_consumed, m_session, m_ns>>
    /\ m_log' = Append(m_log, "initializeSSEResponse failed")
    /\ UNCHANGED notMsgVars

\* execCWRequest returns the upstream response.
ExecCWRequest ==
    /\ m_pc = "exec"
    /\ m_pc' = "initial"
    /\ UNCHANGED <<m_req, m_inputTokens, m_client, m_sent, m_consumed, m_session,
                   m_outcome, m_ns>>
    /\ m_log' = Append(m_log, "execCWRequest")
    /\ UNCHANGED notMsgVars

\* execCWRequest fails: a ModelNotFoundErrorType returns at once, any other
\* error goes through sender.SendError.
ExecCWRequestFails ==
    /\ m_pc = "exec"
    /\ \E modelNotFound \in BOOLEAN :
           m_sent' = IF ~modelNotFound /\ m_client = "connected"
                     THEN Append(m_sent, ErrorEvent) ELSE m_sent
    /\ Return("exec_failed")
    /\ UNCHANGED <<m_req, m_inputTokens, m_client, m_consumed, m_session, m_ns>>
    /\ m_log' = Append(m_log, "execCWRequest")
    /\ UNCHANGED notMsgVars

\* ctx := NewStreamProcessorContext(...); ctx.sendInitialEvents(eventCreator).
SendInitialEvents ==
    /\ m_pc = "initial"
    /\ m_session' = NewSession(m_inputTokens)
    /\ SendEvents(createAnthropicStreamEvents(MessageID, m_inputTokens, "model"),
                  "process", "initial_send_failed")
    /\ UNCHANGED <<m_req, m_inputTokens, m_consumed, m_ns>>
    /\ m_log' = Append(m_log, "NewStreamProcessorContext")
    /\ UNCHANGED notMsgVars

\* processor.ProcessEventStream reads one more event and forwards what the
\* state machine makes of it.
ProcessEvent ==
    /\ m_pc = "process"
    /\ Len(m_consumed) < MaxUpstream
    /\ \E e \in UpstreamEvents :
           LET step == HandleUpstreamEvent(m_session, e)
           IN  /\ m_consumed' = Append(m_consumed, e)
               /\ m_session' = step.session
               /\ SendEvents(step.events, "process", "stream_failed")
    /\ UNCHANGED <<m_req, m_inputTokens, m_ns>>
    /\ UNCHANGED m_log
    /\ UNCHANGED notMsgVars

\* The upstream body ends: ProcessEventStream returns nil.
ProcessEndOfStream ==
    /\ m_pc = "process"
    /\ m_pc' = "final"
    /\ UNCHANGED <<m_req, m_inputTokens, m_client, m_sent, m_consumed, m_session,
                   m_outcome, m_ns>>
    /\ UNCHANGED m_log
    /\ UNCHANGED notMsgVars

\* Reading or parsing the upstream body fails: ProcessEventStream returns the
\* error, the handler logs it and returns.
ProcessEventStreamFails ==
    /\ m_pc = "process"
    /\ Return("stream_failed")
    /\ UNCHANGED <<m_req, m_inputTokens, m_client, m_sent, m_consumed, m_session, m_ns>>
    /\ UNCHANGED m_log
    /\ UNCHANGED notMsgVars

\* ctx.sendFinalEvents().
SendFinalEvents ==
    /\ m_pc = "final"
    /\ SendEvents(FinalEvents(m_req, m_session), "done", "final_send_failed")
    /\ m_session' = [m_session EXCEPT !.activeBlocks = {}]
    /\ UNCHANGED <<m_req, m_inputTokens, m_consumed, m_ns>>
    /\ UNCHANGED m_log
    /\ UNCHANGED notMsgVars

\* The client closes the connection while the streaming handler runs.
ClientDisconnects ==
    /\ m_pc \in {"sse_init", "exec", "initial", "process", "final"}
    /\ m_client = "connected"
    /\ m_client' = "gone"
    /\ UNCHANGED <<m_pc, m_req, m_inputTokens, m_sent, m_consumed, m_session,
                   m_outcome, m_ns>>
    /\ UNCHANGED m_log
    /\ UNCHANGED notMsgVars

StreamNext ==
    \/ InitializeSSEResponse
    \/ InitializeSSEFails
    \/ ExecCWRequest
    \/ ExecCWRequestFails
    \/ SendInitialEvents
    \/ ProcessEvent
    \/ ProcessEndOfStream
    \/ ProcessEventStreamFails
    \/ SendFinalEvents
    \/ ClientDisconnects

(***************************************************************************)
(* handleNonStreamRequest                                                  *)
(***************************************************************************)
\* parser.ParseResult and the tool manager after ParseResponse(body) (spec
\* 4.7): the completion text, here the sequence of its non-empty fragments,
\* and one ToolExecution per toolUseId in order of first appearance.
NonEmptyText(e) == e.kind = "text" /\ e.text # ""

CompletionText(body) == SelectSeq(body, NonEmptyText)

RECURSIVE ToolsOf(_, _)
ToolsOf(body, seen) ==
    IF body = <<>> THEN <<>>
    ELSE LET e == Head(body)
         IN  IF e.kind = "tool" /\ e.id \notin seen
             THEN <<e.id>> \o ToolsOf(Tail(body), seen \cup {e.id})
             ELSE ToolsOf(Tail(body), seen)

AllTools(body) == ToolsOf(body, {})

TextBlock(text) == [type |-> "text", text |-> text, id |-> ""]

ToolUseBlock(id) == [type |-> "tool_use", text |-> <<>>, id |-> id]

RECURSIVE ToolUseBlocks(_)
ToolUseBlocks(tools) ==
    IF tools = <<>> THEN <<>>
    ELSE <<ToolUseBlock(Head(tools))>> \o ToolUseBlocks(Tail(tools))

\* "if textAgg != "" { contexts = append(contexts, text block) }"
TextContexts(textAgg) == IF textAgg # <<>> THEN <<TextBlock(textAgg)>> ELSE <<>>

\* contexts: the text block, then one tool_use block per tool.
Contexts(textAgg, allTools) == TextContexts(textAgg) \o ToolUseBlocks(allTools)

\* estimator.EstimateTextTokens / EstimateToolUseTokens over one block.
EstimateBlockTokens(block) ==
    IF block.type = "text" THEN Len(block.text) \div 2 ELSE 1

RECURSIVE SumBlockTokens(_)
SumBlockTokens(contexts) ==
    IF contexts = <<>> THEN 0
    ELSE EstimateBlockTokens(Head(contexts)) + SumBlockTokens(Tail(contexts))

\* outputTokens without the minimum.
MutOutputTokens(contexts) == SumBlockTokens(contexts)

\* outputTokens with the minimum of 1 for a non-empty response.
OutputTokens(contexts) ==
    LET outputTokens == SumBlockTokens(contexts)
    IN  IF outputTokens < 1 /\ Len(contexts) > 0 THEN 1 ELSE outputTokens

\* The status codes without the branch for the timeout text.
MutParseErrorStatus(err) ==
    IF err = "format" THEN 400
    ELSE 500

\* The status code for a parse error, chosen by the error's text.
ParseErrorStatus(err) ==
    IF err = "timeout" THEN 408
    ELSE IF err = "format" THEN 400
    ELSE 500

\* executeCodeWhispererRequest returns the upstream response.
NsExecute ==
    /\ m_pc = "ns_exec"
    /\ m_pc' = "ns_read"
    /\ UNCHANGED <<m_req, m_inputTokens, m_client, m_sent, m_consumed, m_session,
                   m_outcome, m_ns>>
    /\ UNCHANGED m_log
    /\ UNCHANGED notMsgVars

\* executeCodeWhispererRequest fails; it has answered the client itself.
NsExecuteFails ==
    /\ m_pc = "ns_exec"
    /\ m_ns' = [m_ns EXCEPT !.responses = @ + 1]
    /\ Return("exec_failed")
    /\ UNCHANGED <<m_req, m_inputTokens, m_client, m_sent, m_consumed, m_session>>
    /\ UNCHANGED m_log
    /\ UNCHANGED notMsgVars

\* utils.ReadHTTPResponse reads the whole upstream body.
NsReadBody ==
    /\ m_pc = "ns_read"
    /\ \E body \in SeqsUpTo(UpstreamEvents, MaxUpstream) :
           /\ m_consumed' = body
           /\ m_ns' = [m_ns EXCEPT !.body = body]
    /\ m_pc' = "ns_spawn"
    /\ UNCHANGED <<m_req, m_inputTokens, m_client, m_sent, m_session, m_outcome>>
    /\ UNCHANGED m_log
    /\ UNCHANGED notMsgVars

\* utils.ReadHTTPResponse fails: handleResponseReadError answers the client.
NsReadBodyFails ==
    /\ m_pc = "ns_read"
    /\ m_ns' = [m_ns EXCEPT !.responses = @ + 1]
    /\ Return("read_failed")
    /\ UNCHANGED <<m_req, m_inputTokens, m_client, m_sent, m_consumed, m_session>>
    /\ UNCHANGED m_log
    /\ UNCHANGED notMsgVars

\* "go func() {...}()" and the select with time.After(10 * time.Second).
NsSpawnParser ==
    /\ m_pc = "ns_spawn"
    /\ m_ns' = [m_ns EXCEPT !.parser = "running", !.timer = "armed"]
    /\ m_pc' = "ns_select"
    /\ UNCHANGED <<m_req, m_inputTokens, m_client, m_sent, m_consumed, m_session,
                   m_outcome>>
    /\ UNCHANGED m_log
    /\ UNCHANGED notMsgVars

\* The goroutine: ParseResponse returns a result or an error, or panics and
\* the deferred recover turns the panic into an error; then close(done).
GoParse ==
    /\ m_ns.parser = "running"
    /\ \E how \in {"ok", "error", "format", "panic"} :
           m_ns' = [m_ns EXCEPT !.parser = "finished",
                                !.goResult = IF how = "ok" THEN "parsed" ELSE "nil",
                                !.goErr = IF how = "ok" THEN "" ELSE how]
    /\ UNCHANGED <<m_pc, m_req, m_inputTokens, m_client, m_sent, m_consumed,
                   m_session, m_outcome>>
    /\ UNCHANGED m_log
    /\ UNCHANGED notMsgVars

\* The ten seconds pass.
TimerFires ==
    /\ m_ns.timer = "armed"
    /\ m_pc = "ns_select"
    /\ m_ns' = [m_ns EXCEPT !.timer = "fired"]
    /\ UNCHANGED <<m_pc, m_req, m_inputTokens, m_client, m_sent, m_consumed,
                   m_session, m_outcome>>
    /\ UNCHANGED m_log
    /\ UNCHANGED notMsgVars

\* The handler reading result and err without waiting for done.
MutNsSelectDone ==
    /\ m_pc = "ns_select"
    /\ m_ns' = [m_ns EXCEPT !.result = m_ns.goResult, !.err = m_ns.goErr]
    /\ m_pc' = "ns_respond"
    /\ UNCHANGED <<m_req, m_inputTokens, m_client, m_sent, m_consumed, m_session,
                   m_outcome>>
    /\ UNCHANGED m_log
    /\ UNCHANGED notMsgVars

\* "case <-done: return result, err"
NsSelectDone ==
    /\ m_pc = "ns_select"
    /\ m_ns.parser = "finished"
    /\ m_ns' = [m_ns EXCEPT !.result = m_ns.goResult, !.err = m_ns.goErr]
    /\ m_pc' = "ns_respond"
    /\ UNCHANGED <<m_req, m_inputTokens, m_client, m_sent, m_consumed, m_session,
                   m_outcome>>
    /\ UNCHANGED m_log
    /\ UNCHANGED notMsgVars

\* "case <-time.After(10 * time.Second): return nil, timeout"
NsSelectTimeout ==
    /\ m_pc = "ns_select"
    /\ m_ns.timer = "fired"
    /\ m_ns' = [m_ns EXCEPT !.result = "nil", !.err = "timeout"]
    /\ m_pc' = "ns_respond"
    /\ UNCHANGED <<m_req, m_inputTokens, m_client, m_sent, m_consumed, m_session,
                   m_outcome>>
    /\ UNCHANGED m_log
    /\ UNCHANGED notMsgVars

\* "if err != nil { ... c.JSON(statusCode, errorResp); return }"
NsRespondError ==
    /\ m_pc = "ns_respond"
    /\ m_ns.err # ""
    /\ m_ns' = [m_ns EXCEPT !.http = ParseErrorStatus(m_ns.err), !.responses = @ + 1]
    /\ Return("parse_failed")
    /\ UNCHANGED <<m_req, m_inputTokens, m_client, m_sent, m_consumed, m_session>>
    /\ UNCHANGED m_log
    /\ UNCHANGED notMsgVars

\* The content array, the usage and c.JSON(http.StatusOK, anthropicResp).
NsRespond ==
    /\ m_pc = "ns_respond"
    /\ m_ns.err = ""
    /\ LET contexts == Contexts(CompletionText(m_ns.body), AllTools(m_ns.body))
       IN  m_ns' = [m_ns EXCEPT !.http = 200, !.responses = @ + 1,
                                !.content = contexts,
                                !.output_tokens = OutputTokens(contexts)]
    /\ Return("ok")
    /\ UNCHANGED <<m_req, m_inputTokens, m_client, m_sent, m_consumed, m_session>>
    /\ UNCHANGED m_log
    /\ UNCHANGED notMsgVars

NonStreamNext ==
    \/ NsExecute
    \/ NsExecuteFails
    \/ NsReadBody
    \/ NsReadBodyFails
    \/ NsSpawnParser
    \/ GoParse
    \/ TimerFires
    \/ NsSelectDone
    \/ NsSelectTimeout
    \/ NsRespondError
    \/ NsRespond

MsgNext == HandlerEntry \/ StreamNext \/ NonStreamNext

(***************************************************************************)
(* Credential store: server/config_handler.go; auth.loadConfigs            *)
(***************************************************************************)
\* The request tasks that run in parallel.
Workers == {"w1", "w2"}

AuthMethodSocial == "Social"
AuthMethodIdC == "IdC"

\* auth.AuthConfig
AuthConfig(authType, refreshToken, clientId, clientSecret, disabled) ==
    [AuthType |-> authType, RefreshToken |-> refreshToken, ClientID |-> clientId,
     ClientSecret |-> clientSecret, Disabled |-> disabled]

\* The zero value of auth.AuthConfig.
ZeroConfig == AuthConfig("", "", "", "", FALSE)

SocialA == AuthConfig(AuthMethodSocial, "rt-a", "", "", FALSE)

IdCB == AuthConfig(AuthMethodIdC, "rt-b", "cid", "secret", FALSE)

\* encoding/json over AuthConfig's tags: "auth" and "refreshToken" are always
\* written, "clientId", "clientSecret" and "disabled" only when not the zero
\* value (omitempty); a key that is absent decodes to the zero value.
Omitted == "<omitted>"

MarshalConfig(config) ==
    [auth |-> config.AuthType,
     refreshToken |-> config.RefreshToken,
     clientId |-> IF config.ClientID = "" THEN Omitted ELSE config.ClientID,
     clientSecret |-> IF config.ClientSecret = "" THEN Omitted ELSE config.ClientSecret,
     disabled |-> IF config.Disabled THEN "true" ELSE Omitted]

UnmarshalConfig(object) ==
    AuthConfig(object.auth, object.refreshToken,
               IF object.clientId = Omitted THEN "" ELSE object.clientId,
               IF object.clientSecret = Omitted THEN "" ELSE object.clientSecret,
               object.disabled = "true")

\* json.MarshalIndent(cs.configs, "", "  "): it cannot fail on strings and a bool.
MarshalConfigs(configs) == [i \in 1..Len(configs) |-> MarshalConfig(configs[i])]

\* json.Unmarshal(data, &configs) on a complete array.
UnmarshalConfigs(array) == [i \in 1..Len(array) |-> UnmarshalConfig(array[i])]

\* The credential file: absent, empty (opened with O_TRUNC, nothing written
\* yet), partial (a write stopped short) or the complete JSON array.
AbsentFile == [state |-> "absent", array |-> <<>>]

EmptyFile == [state |-> "empty", array |-> <<>>]

PartialFile == [state |-> "partial", array |-> <<>>]

CompleteFile(array) == [state |-> "complete", array |-> array]

\* The file InitConfigStore finds.
InitialFiles ==
    {AbsentFile,
     CompleteFile(MarshalConfigs(<<SocialA>>)),
     CompleteFile(MarshalConfigs(<<SocialA, IdCB>>))}

\* ConfigStore.load: a missing file gives the empty list.
load(file) ==
    IF file.state = "absent" THEN [err |-> "nil", configs |-> <<>>]
    ELSE IF file.state = "complete"
    THEN [err |-> "nil", configs |-> UnmarshalConfigs(file.array)]
    ELSE [err |-> "SyntaxError", configs |-> <<>>]

\* The JSON bodies of POST /api/config and PUT /api/config/:index: one that
\* does not bind, and objects with and without the required fields.
ConfigBodies ==
    {[json |-> FALSE, config |-> ZeroConfig]}
    \cup {[json |-> TRUE, config |-> c] :
            c \in {SocialA, IdCB,
                   AuthConfig("", "rt-a", "", "", FALSE),
                   AuthConfig(AuthMethodSocial, "", "", "", FALSE),
                   AuthConfig(AuthMethodIdC, "rt-b", "cid", "", FALSE)}}

\* c.Param("index"): not a number, or an integer.
IndexParams ==
    {[numeric |-> FALSE, value |-> 0]}
    \cup [numeric : {TRUE}, value : (-1)..MaxIndex]

\* The checks with the IdC one left out.
MutValidateConfig(body) ==
    IF ~body.json THEN [status |-> 400, config |-> ZeroConfig]
    ELSE IF body.config.RefreshToken = "" THEN [status |-> 400, config |-> ZeroConfig]
    ELSE [status |-> 0,
          config |-> IF body.config.AuthType = ""
                     THEN [body.config EXCEPT !.AuthType = AuthMethodSocial]
                     ELSE body.config]

\* The handlers' checks before the store is called: ShouldBindJSON, the
\* required refresh token, the default auth type, the IdC fields.  status 0
\* means the request goes on to the store with `config`.
ValidateConfig(body) ==
    IF ~body.json THEN [status |-> 400, config |-> ZeroConfig]
    ELSE IF body.config.RefreshToken = "" THEN [status |-> 400, config |-> ZeroConfig]
    ELSE LET config == IF body.config.AuthType = ""
                       THEN [body.config EXCEPT !.AuthType = AuthMethodSocial]
                       ELSE body.config
         IN  IF /\ config.AuthType = AuthMethodIdC
                /\ (config.ClientID = "" \/ config.ClientSecret = "")
             THEN [status |-> 400, config |-> ZeroConfig]
             ELSE [status |-> 0, config |-> config]

\* os.IsNotExist(err): os.ErrNotExist itself, or a *PathError wrapping ENOENT.
IsNotExist(err) == err \in {"ErrNotExist", "ENOENT"}

\* handleAddConfig: any error of AddConfig is a 500.
AddStatus(err) == IF err = "nil" THEN 200 ELSE 500

\* handleUpdateConfig and handleDeleteConfig: 404 when os.IsNotExist(err).
UpdateStatus(err) ==
    IF err = "nil" THEN 200
    ELSE IF IsNotExist(err) THEN 404
    ELSE 500

StatusOf(op, err) == IF op = "add" THEN AddStatus(err) ELSE UpdateStatus(err)

\* "index < 0 || index >= len(cs.configs)" with the upper comparison off by one.
MutIndexOutOfRange(index, n) == index < 0 \/ index > n

\* "index < 0 || index >= len(cs.configs)"
IndexOutOfRange(index, n) == index < 0 \/ index >= n

\* cs.configs = append(cs.configs, config)
AppendConfig(configs, config) == Append(configs, config)

\* cs.configs[index] = config
SetConfig(configs, index, config) == [configs EXCEPT ![index + 1] = config]

\* The removal taking the record after the one asked for when there is one.
MutRemoveConfig(configs, index) ==
    IF index + 2 <= Len(configs)
    THEN SubSeq(configs, 1, index + 1) \o SubSeq(configs, index + 3, Len(configs))
    ELSE SubSeq(configs, 1, index)

\* cs.configs = append(cs.configs[:index], cs.configs[index+1:]...)
RemoveConfig(configs, index) ==
    SubSeq(configs, 1, index) \o SubSeq(configs, index + 2, Len(configs))

\* sync.RWMutex: Lock waits for the writer and the readers to leave, RLock
\* for the writer.
LockFree(mutex) == mutex.writer = "none" /\ mutex.readers = {}

RLockFree(mutex) == mutex.writer = "none"

\* The three skips of processConfigs without the one for disabled records.
MutUsableConfig(config) ==
    /\ config.RefreshToken # ""
    /\ ~(/\ config.AuthType = AuthMethodIdC
         /\ (config.ClientID = "" \/ config.ClientSecret = ""))

\* processConfigs: the records usable at run time, in order, with the
\* default auth type filled in.
UsableConfig(config) ==
    /\ config.RefreshToken # ""
    /\ ~(/\ config.AuthType = AuthMethodIdC
         /\ (config.ClientID = "" \/ config.ClientSecret = ""))
    /\ ~config.Disabled

RECURSIVE processConfigs(_)
processConfigs(configs) ==
    IF configs = <<>> THEN <<>>
    ELSE LET config == Head(configs)
             typed == IF config.AuthType = ""
                      THEN [config EXCEPT !.AuthType = AuthMethodSocial]
                      ELSE config
         IN  (IF UsableConfig(typed) THEN <<typed>> ELSE <<>>)
             \o processConfigs(Tail(configs))

\* A JSON text as parseJSONConfig sees it: an array of objects, one object,
\* or something json.Unmarshal rejects both times.
Content(json, array) == [json |-> json, array |-> array]

NoContent == Content("invalid", <<>>)

\* KIRO_AUTH_TOKEN: unset (or empty), a JSON text, or the path of an existing
\* file, which os.ReadFile reads or fails to read.
EnvUnset == [kind |-> "unset", readable |-> FALSE, content |-> NoContent]

EnvInline(content) == [kind |-> "inline", readable |-> FALSE, content |-> content]

EnvPath(readable, content) == [kind |-> "path", readable |-> readable, content |-> content]

\* parseJSONConfig: an array first, a single object second.
parseJSONConfig(content) ==
    IF content.json = "array"
    THEN [err |-> "nil", configs |-> UnmarshalConfigs(content.array)]
    ELSE IF content.json = "object"
    THEN [err |-> "nil", configs |-> <<UnmarshalConfig(content.array[1])>>]
    ELSE [err |-> "invalid JSON", configs |-> <<>>]

\* What the credential file gives loadConfigs: os.Stat finds it, it holds
\* more than two bytes ("[]" has two), it parses, and the valid records.
\* A file cut short by a running or failed save does not parse.
ConfigsOfFile(file) ==
    IF file.state = "complete" /\ Len(file.array) > 0
    THEN processConfigs(parseJSONConfig(Content("array", file.array)).configs)
    ELSE <<>>

\* loadConfigs with the two sources in the other order: KIRO_AUTH_TOKEN
\* when it is set, the credential file when not.
MutloadConfigs(file, env) ==
    LET fail(err) == [err |-> err, configs |-> <<>>]
        parsed == parseJSONConfig(env.content)
    IN  IF env.kind = "unset"
        THEN IF ConfigsOfFile(file) # <<>>
             THEN [err |-> "nil", configs |-> ConfigsOfFile(file)]
             ELSE fail("no configuration")
        ELSE IF env.kind = "path" /\ ~env.readable THEN fail("read failed")
        ELSE IF parsed.err # "nil" THEN fail("parse failed")
        ELSE IF processConfigs(parsed.configs) = <<>> THEN fail("no valid configuration")
        ELSE [err |-> "nil", configs |-> processConfigs(parsed.configs)]

\* loadConfigs: the file's valid records when there is one; KIRO_AUTH_TOKEN
\* otherwise, read as a file when os.Stat finds one and as JSON when not.
loadConfigs(file, env) ==
    LET fail(err) == [err |-> err, configs |-> <<>>]
        validConfigs == ConfigsOfFile(file)
        parsed == parseJSONConfig(env.content)
    IN  IF validConfigs # <<>> THEN [err |-> "nil", configs |-> validConfigs]
        ELSE IF env.kind = "unset" THEN fail("no configuration")
        ELSE IF env.kind = "path" /\ ~env.readable THEN fail("read failed")
        ELSE IF parsed.err # "nil" THEN fail("parse failed")
        ELSE IF Len(parsed.configs) = 0 THEN fail("empty configuration")
        ELSE IF processConfigs(parsed.configs) = <<>> THEN fail("no valid configuration")
        ELSE [err |-> "nil", configs |-> processConfigs(parsed.configs)]

(***************************************************************************)
(* The store's state and the requests on it                                *)
(***************************************************************************)
\* cs.configs and the file as one call finds or leaves them.
Snapshot(configs, file) == [configs |-> configs, file |-> file]

NoSnapshot == Snapshot(<<>>, AbsentFile)

\* What a call of loadConfigs saw when it read the file: whether the caller
\* held the store's mutex, whether a save stood between its open and its
\* write, and the file's content.
NoRead == [done |-> FALSE, locked |-> FALSE, saving |-> FALSE, file |-> AbsentFile]

\* A task between two requests, holding what its last request returned.
IdleWorker ==
    [pc |-> "idle", op |-> "none", index |-> 0, config |-> ZeroConfig,
     list |-> <<>>, data |-> <<>>, err |-> "", http |-> 0, result |-> <<>>,
     before |-> NoSnapshot, after |-> NoSnapshot, read |-> NoRead]

\* One returned store mutation, as the history records it.
Mutation(op, index, config, err) ==
    [op |-> op, index |-> index, config |-> config, err |-> err]

\* After InitConfigStore(filePath): the list load() read, no request yet.
StoreInit ==
    /\ s_file \in InitialFiles
    /\ s_configs = load(s_file).configs
    /\ s_mutex = [writer |-> "none", readers |-> {}]
    /\ s_w = [w \in Workers |-> IdleWorker]
    /\ s_started = 0
    /\ s_hist = [initial |-> s_configs, log |-> <<>>, committed |-> {s_configs},
                 saveBefore |-> s_file, saveData |-> MarshalConfigs(s_configs)]

StoreIdle ==
    /\ s_file = AbsentFile
    /\ s_configs = <<>>
    /\ s_mutex = [writer |-> "none", readers |-> {}]
    /\ s_w = [w \in Workers |-> IdleWorker]
    /\ s_started = MaxRequests
    /\ s_hist = [initial |-> <<>>, log |-> <<>>, committed |-> {<<>>},
                 saveBefore |-> AbsentFile, saveData |-> <<>>]

\* A task takes the next request.
Accepts(w) ==
    /\ s_w[w].pc = "idle"
    /\ s_started < MaxRequests
    /\ s_started' = s_started + 1

\* GET /api/config, handleGetConfig up to configStore.GetConfigs().
HandleGetConfig(w) ==
    /\ Accepts(w)
    /\ s_w' = [s_w EXCEPT ![w] = [IdleWorker EXCEPT !.pc = "RLock", !.op = "get"]]
    /\ UNCHANGED <<s_configs, s_mutex, s_file, s_hist>>
    /\ UNCHANGED notStoreVars

\* POST /api/config, handleAddConfig up to configStore.AddConfig(config).
HandleAddConfig(w) ==
    /\ Accepts(w)
    /\ \E body \in ConfigBodies :
           LET v == ValidateConfig(body)
           IN  s_w' = [s_w EXCEPT ![w] =
                          IF v.status # 0
                          THEN [IdleWorker EXCEPT !.op = "add", !.http = v.status]
                          ELSE [IdleWorker EXCEPT !.pc = "Lock", !.op = "add",
                                                  !.config = v.config]]
    /\ UNCHANGED <<s_configs, s_mutex, s_file, s_hist>>
    /\ UNCHANGED notStoreVars

\* PUT /api/config/:index, handleUpdateConfig up to UpdateConfig(index, config).
HandleUpdateConfig(w) ==
    /\ Accepts(w)
    /\ \E param \in IndexParams, body \in ConfigBodies :
           LET v == ValidateConfig(body)
           IN  s_w' = [s_w EXCEPT ![w] =
                          IF ~param.numeric
                          THEN [IdleWorker EXCEPT !.op = "update", !.http = 400]
                          ELSE IF v.status # 0
                          THEN [IdleWorker EXCEPT !.op = "update", !.http = v.status]
                          ELSE [IdleWorker EXCEPT !.pc = "Lock", !.op = "update",
                                                  !.index = param.value,
                                                  !.config = v.config]]
    /\ UNCHANGED <<s_configs, s_mutex, s_file, s_hist>>
    /\ UNCHANGED notStoreVars

\* DELETE /api/config/:index, handleDeleteConfig up to DeleteConfig(index).
HandleDeleteConfig(w) ==
    /\ Accepts(w)
    /\ \E param \in IndexParams :
           s_w' = [s_w EXCEPT ![w] =
                      IF ~param.numeric
                      THEN [IdleWorker EXCEPT !.op = "delete", !.http = 400]
                      ELSE [IdleWorker EXCEPT !.pc = "Lock", !.op = "delete",
                                              !.index = param.value]]
    /\ UNCHANGED <<s_configs, s_mutex, s_file, s_hist>>
    /\ UNCHANGED notStoreVars

\* GET /api/tokens, handleTokenPoolAPI up to auth.GetConfigs().
HandleTokenPoolAPI(w) ==
    /\ Accepts(w)
    /\ s_w' = [s_w EXCEPT ![w] = [IdleWorker EXCEPT !.pc = "Load", !.op = "tokens"]]
    /\ UNCHANGED <<s_configs, s_mutex, s_file, s_hist>>
    /\ UNCHANGED notStoreVars

\* cs.mutex.Lock() of AddConfig, UpdateConfig and DeleteConfig.
MutexLock(w) ==
    /\ s_w[w].pc = "Lock"
    /\ LockFree(s_mutex)
    /\ s_mutex' = [s_mutex EXCEPT !.writer = w]
    /\ s_w' = [s_w EXCEPT ![w].pc = "Body", ![w].before = Snapshot(s_configs, s_file)]
    /\ UNCHANGED <<s_configs, s_file, s_started, s_hist>>
    /\ UNCHANGED notStoreVars

\* The store call returns `err` with the list and the file as given: the
\* deferred Unlock runs and the handler answers.
ReturnFromStore(w, err, configs, file) ==
    /\ s_mutex' = [s_mutex EXCEPT !.writer = IF @ = w THEN "none" ELSE @]
    /\ s_w' = [s_w EXCEPT ![w].pc = "idle", ![w].err = err,
                          ![w].http = StatusOf(s_w[w].op, err),
                          ![w].after = Snapshot(configs, file)]
    /\ s_hist' = [s_hist EXCEPT
                      !.log = Append(@, Mutation(s_w[w].op, s_w[w].index,
                                                 s_w[w].config, err)),
                      !.committed = @ \cup {configs}]

\* AddConfig: append(cs.configs, config) reads the list and builds the new one.
AddConfigBody(w) ==
    /\ s_w[w].pc = "Body"
    /\ s_w[w].op = "add"
    /\ s_w' = [s_w EXCEPT ![w].pc = "Assign",
                          ![w].list = AppendConfig(s_configs, s_w[w].config)]
    /\ UNCHANGED <<s_configs, s_mutex, s_file, s_started, s_hist>>
    /\ UNCHANGED notStoreVars

\* UpdateConfig: the range check, then the assignment.
UpdateConfigBody(w) ==
    /\ s_w[w].pc = "Body"
    /\ s_w[w].op = "update"
    /\ IF IndexOutOfRange(s_w[w].index, Len(s_configs))
       THEN /\ ReturnFromStore(w, "ErrNotExist", s_configs, s_file)
            /\ UNCHANGED s_configs
       ELSE /\ s_configs' = SetConfig(s_configs, s_w[w].index, s_w[w].config)
            /\ s_w' = [s_w EXCEPT ![w].pc = "Save"]
            /\ UNCHANGED <<s_mutex, s_hist>>
    /\ UNCHANGED <<s_file, s_started>>
    /\ UNCHANGED notStoreVars

\* DeleteConfig: the range check, then append(cs.configs[:index],
\* cs.configs[index+1:]...) reads the list and builds the new one.
DeleteConfigBody(w) ==
    /\ s_w[w].pc = "Body"
    /\ s_w[w].op = "delete"
    /\ IF IndexOutOfRange(s_w[w].index, Len(s_configs))
       THEN ReturnFromStore(w, "ErrNotExist", s_configs, s_file)
       ELSE /\ s_w' = [s_w EXCEPT ![w].pc = "Assign",
                                  ![w].list = RemoveConfig(s_configs, s_w[w].index)]
            /\ UNCHANGED <<s_mutex, s_hist>>
    /\ UNCHANGED <<s_configs, s_file, s_started>>
    /\ UNCHANGED notStoreVars

\* "cs.configs = ..." of AddConfig and DeleteConfig: the new list is stored.
AssignConfigs(w) ==
    /\ s_w[w].pc = "Assign"
    /\ s_configs' = s_w[w].list
    /\ s_w' = [s_w EXCEPT ![w].pc = "Save"]
    /\ UNCHANGED <<s_mutex, s_file, s_started, s_hist>>
    /\ UNCHANGED notStoreVars

\* save: json.MarshalIndent, then os.WriteFile opens the file with
\* O_WRONLY|O_CREATE|O_TRUNC, which leaves it empty until the write.
SaveOpen(w) ==
    /\ s_w[w].pc = "Save"
    /\ s_w' = [s_w EXCEPT ![w].pc = "Write", ![w].data = MarshalConfigs(s_configs)]
    /\ s_file' = EmptyFile
    /\ s_hist' = [s_hist EXCEPT !.saveBefore = s_file,
                                !.saveData = MarshalConfigs(s_configs)]
    /\ UNCHANGED <<s_configs, s_mutex, s_started>>
    /\ UNCHANGED notStoreVars

\* os.WriteFile fails to open the file: ENOENT when the directory of a file
\* that does not exist is missing, EACCES when the file may not be written.
SaveOpenFails(w) ==
    /\ s_w[w].pc = "Save"
    /\ \E errno \in {"ENOENT", "EACCES"} :
           /\ errno = "ENOENT" => s_file.state = "absent"
           /\ ReturnFromStore(w, errno, s_configs, s_file)
    /\ UNCHANGED <<s_configs, s_file, s_started>>
    /\ UNCHANGED notStoreVars

\* os.WriteFile writes the data and closes the file; save returns nil.
SaveWrite(w) ==
    /\ s_w[w].pc = "Write"
    /\ s_file' = CompleteFile(s_w[w].data)
    /\ ReturnFromStore(w, "nil", s_configs, CompleteFile(s_w[w].data))
    /\ UNCHANGED <<s_configs, s_started>>
    /\ UNCHANGED notStoreVars

\* The write fails (a full disk, say) with nothing or a part of the data
\* written; save returns the error.
SaveWriteFails(w) ==
    /\ s_w[w].pc = "Write"
    /\ \E left \in {EmptyFile, PartialFile} :
           /\ s_file' = left
           /\ ReturnFromStore(w, "ENOSPC", s_configs, left)
    /\ UNCHANGED <<s_configs, s_started>>
    /\ UNCHANGED notStoreVars

\* cs.mutex.RLock() of GetConfigs.
MutexRLock(w) ==
    /\ s_w[w].pc = "RLock"
    /\ RLockFree(s_mutex)
    /\ s_mutex' = [s_mutex EXCEPT !.readers = @ \cup {w}]
    /\ s_w' = [s_w EXCEPT ![w].pc = "Copy"]
    /\ UNCHANGED <<s_configs, s_file, s_started, s_hist>>
    /\ UNCHANGED notStoreVars

\* GetConfigs: make, copy, the deferred RUnlock; handleGetConfig answers 200
\* with the copy.
GetConfigsCopy(w) ==
    /\ s_w[w].pc = "Copy"
    /\ s_mutex' = [s_mutex EXCEPT !.readers = @ \ {w}]
    /\ s_w' = [s_w EXCEPT ![w].pc = "idle", ![w].result = s_configs, ![w].http = 200]
    /\ UNCHANGED <<s_configs, s_file, s_started, s_hist>>
    /\ UNCHANGED notStoreVars

\* auth.GetConfigs() = loadConfigs(): os.Stat and os.ReadFile on the
\* credential file, with no lock taken; handleTokenPoolAPI answers 500 when
\* it returns an error.
LoadConfigsRead(w) ==
    /\ s_w[w].pc = "Load"
    /\ LET loaded == loadConfigs(s_file, EnvUnset)
       IN  s_w' = [s_w EXCEPT
                      ![w].pc = "idle",
                      ![w].read = [done |-> TRUE,
                                   locked |-> s_mutex.writer = w \/ w \in s_mutex.readers,
                                   saving |-> \E v \in Workers : s_w[v].pc = "Write",
                                   file |-> s_file],
                      ![w].result = loaded.configs,
                      ![w].err = loaded.err,
                      ![w].http = IF loaded.err = "nil" THEN 200 ELSE 500]
    /\ UNCHANGED <<s_configs, s_mutex, s_file, s_started, s_hist>>
    /\ UNCHANGED notStoreVars

StoreNext ==
    \E w \in Workers :
        \/ HandleGetConfig(w)
        \/ HandleAddConfig(w)
        \/ HandleUpdateConfig(w)
        \/ HandleDeleteConfig(w)
        \/ HandleTokenPoolAPI(w)
        \/ MutexLock(w)
        \/ AddConfigBody(w)
        \/ UpdateConfigBody(w)
        \/ DeleteConfigBody(w)
        \/ AssignConfigs(w)
        \/ SaveOpen(w)
        \/ SaveOpenFails(w)
        \/ SaveWrite(w)
        \/ SaveWriteFails(w)
        \/ MutexRLock(w)
        \/ GetConfigsCopy(w)
        \/ LoadConfigsRead(w)

(***************************************************************************)
(* Admin requests served one at a time: the config CRUD handlers,          *)
(* handleImportConfig and handleTokenPoolAPI (server/config_handler.go)    *)
(***************************************************************************)
AccountStatusExpired == "expired"
AccountStatusDisabled == "disabled"

\* A record switched off in the config page.
DisabledC == AuthConfig(AuthMethodSocial, "rt-c", "", "", TRUE)

\* An IdC record lacking its client secret, as a hand-edited file may hold.
IdCNoSecret == AuthConfig(AuthMethodIdC, "rt-b", "cid", "", FALSE)

\* A record whose auth type is neither "Social" nor "IdC".
OtherType == AuthConfig("idc", "rt-e", "cid", "secret", FALSE)

\* A record without a refresh token, and one without an auth type.
NoRefreshToken == AuthConfig(AuthMethodSocial, "", "", "", FALSE)

Untyped == AuthConfig("", "rt-u", "", "", FALSE)

AdminRecords == {SocialA, IdCB, DisabledC, IdCNoSecret, OtherType}

\* The credential files a run starts from: none, "[]", and the arrays of up
\* to MaxRecords records.
AdminFiles ==
    {AbsentFile, EmptyFile, PartialFile}
    \cup {CompleteFile(MarshalConfigs(l)) : l \in SeqsUpTo(AdminRecords, MaxRecords)}

\* KIRO_AUTH_TOKEN: unset, JSON texts of each shape, and a file path.
AdminEnvs ==
    {EnvUnset,
     EnvInline(NoContent),
     EnvInline(Content("array", <<>>)),
     EnvInline(Content("array", MarshalConfigs(<<IdCB, NoRefreshToken, Untyped>>))),
     EnvInline(Content("array", MarshalConfigs(<<DisabledC>>))),
     EnvInline(Content("object", MarshalConfigs(<<SocialA>>))),
     EnvPath(TRUE, Content("array", MarshalConfigs(<<IdCB>>))),
     EnvPath(FALSE, NoContent)}

\* The files that make loadConfigs fall back on KIRO_AUTH_TOKEN, and one
\* that does not.
FallbackFiles ==
    {AbsentFile,
     CompleteFile(<<>>),
     CompleteFile(MarshalConfigs(<<DisabledC>>)),
     CompleteFile(MarshalConfigs(<<SocialA>>))}

\* types.TokenInfo: the refresh token of the refresh response ("" when the
\* response carries none) and whether IsExpired() holds.
TokenInfo(refreshToken, expired) == [RefreshToken |-> refreshToken, expired |-> expired]

NoToken == TokenInfo("", FALSE)

Rotated == "rt-new"

\* auth.RefreshSocialToken / auth.RefreshIdCToken (spec 4.2): an error, or
\* a token whose refresh token is the one sent, a rotated one, or absent.
RefreshOutcomes(config) ==
    {[err |-> "refresh failed", token |-> NoToken]}
    \cup {[err |-> "nil", token |-> TokenInfo(config.RefreshToken, TRUE)]}
    \cup {[err |-> "nil", token |-> TokenInfo(rt, FALSE)] :
            rt \in {config.RefreshToken, Rotated, ""}}

\* refreshSingleTokenByConfig: the refresher of the record's auth type.
refreshSingleTokenByConfig(config) ==
    IF config.AuthType \in {AuthMethodSocial, AuthMethodIdC}
    THEN RefreshOutcomes(config)
    ELSE {[err |-> "unsupported auth type", token |-> NoToken]}

\* The usage endpoint's answers a run draws from: a transport failure, an
\* error status with an unparseable body, a ban, an unparseable 200, an
\* exhausted and an active account.
ProbeResponses ==
    {[transport |-> "do_error", code |-> 0, body |-> GarbageBody],
     [transport |-> "ok", code |-> 401, body |-> GarbageBody],
     [transport |-> "ok", code |-> 403,
      body |-> Body(TRUE, TRUE, FALSE, "ABUSE", <<>>)],
     [transport |-> "ok", code |-> 200, body |-> ArrayBody],
     [transport |-> "ok", code |-> 200,
      body |-> Body(TRUE, TRUE, TRUE, ReasonAbsent, <<>>)],
     [transport |-> "ok", code |-> 200,
      body |-> Body(TRUE, TRUE, TRUE, ReasonAbsent, <<SecondCredit>>)]}

\* The text of an error as a client reads it: the words the server wrote
\* and what it quotes after them.  A quote is nothing, the text of a local
\* Go error, the upstream body's "reason" string, or the upstream body.
Quote(kind, reason, body) == [kind |-> kind, reason |-> reason, body |-> body]

NoQuote == Quote("none", "", GarbageBody)

ErrText(msg, quote) == [msg |-> msg, quote |-> quote]

NoErrText == ErrText("", NoQuote)

\* result.Error.Error() of CheckUsageLimitsWithStatus, per fmt.Errorf call.
UsageErrorText(resp) ==
    LET result == CheckUsageLimitsWithStatus(resp)
    IN  IF result.Error = "" THEN NoErrText
        ELSE IF result.Status = AccountStatusBanned
        THEN ErrText(result.Error, Quote("reason", result.BanReason, GarbageBody))
        ELSE IF result.Error = "bad status"
        THEN ErrText(result.Error, Quote("body", "", resp.body))
        ELSE ErrText(result.Error, Quote("go error", "", GarbageBody))

\* ConfigStore.save run to its end: the file written whole; os.WriteFile
\* failing to open it (the file is as before); the write failing after the
\* open truncated it.
SaveResults(configs, file) ==
    {[err |-> "nil", file |-> CompleteFile(MarshalConfigs(configs))],
     [err |-> "EACCES", file |-> file],
     [err |-> "ENOSPC", file |-> EmptyFile],
     [err |-> "ENOSPC", file |-> PartialFile]}
    \cup (IF file = AbsentFile THEN {[err |-> "ENOENT", file |-> file]} ELSE {})

\* What a store call leaves: its error, cs.configs and the file.
Stored(err, configs, file) == [err |-> err, configs |-> configs, file |-> file]

\* ConfigStore.AddConfig with no other task in the store.
AddConfig(configs, file, config) ==
    {Stored(r.err, AppendConfig(configs, config), r.file) :
        r \in SaveResults(AppendConfig(configs, config), file)}

\* ConfigStore.UpdateConfig with no other task in the store.
UpdateConfig(configs, file, index, config) ==
    IF IndexOutOfRange(index, Len(configs))
    THEN {Stored("ErrNotExist", configs, file)}
    ELSE {Stored(r.err, SetConfig(configs, index, config), r.file) :
            r \in SaveResults(SetConfig(configs, index, config), file)}

\* ConfigStore.DeleteConfig with no other task in the store.
DeleteConfig(configs, file, index) ==
    IF IndexOutOfRange(index, Len(configs))
    THEN {Stored("ErrNotExist", configs, file)}
    ELSE {Stored(r.err, RemoveConfig(configs, index), r.file) :
            r \in SaveResults(RemoveConfig(configs, index), file)}

\* One HTTP response of an admin handler: the status, the "error" field,
\* the list it carries (configs, tokens, results) and the count beside it
\* (active_tokens, success).
Response(op, status, error, items, count) ==
    [op |-> op, status |-> status, error |-> error, items |-> items, count |-> count]

NoResponse == Response("none", 0, NoErrText, <<>>, 0)

NoAdminReq == [op |-> "none", list |-> <<>>, i |-> 0]

NoLoaded == [err |-> "", configs |-> <<>>]

\* The JSON body of a request that has none, or whose body does not bind.
NoBody == [json |-> FALSE, config |-> ZeroConfig]

\* The history of the running request: the store and file it found, the
\* record its body holds, what loadConfigs returned to it, and its
\* successful refreshes.
AdminLog(before, body, loaded, refreshes) ==
    [before |-> before, body |-> body, loaded |-> loaded, refreshes |-> refreshes]

\* One successful refresh: the record refreshed, the token returned, and
\* whether the record is one of the credential store.
Refresh(config, token, stored) == [config |-> config, token |-> token, stored |-> stored]

\* InitConfigStore: the pointer is set to a store with the empty list, then
\* load runs; main logs its error and goes on.
InitConfigStore(file) ==
    [err |-> load(file).err, isNil |-> FALSE, configs |-> load(file).configs]

\* "if configStore == nil { c.JSON(500, ...); return }"
NotInitialized(op) ==
    Response(op, 500, ErrText("store not initialized", NoQuote), <<>>, 0)

AdminInit ==
    /\ a_file \in AdminFiles
    /\ a_env \in AdminEnvs
    /\ a_env = EnvUnset \/ a_file \in FallbackFiles
    /\ a_configs = InitConfigStore(a_file).configs
    /\ a_init = [err |-> InitConfigStore(a_file).err,
                 isNil |-> InitConfigStore(a_file).isNil]
    /\ a_pc = "idle"
    /\ a_req = NoAdminReq
    /\ a_items = <<>>
    /\ a_resp = NoResponse
    /\ a_started = 0
    /\ a_log = AdminLog(Snapshot(a_configs, a_file), NoBody, NoLoaded, <<>>)

AdminIdle ==
    /\ a_file = AbsentFile
    /\ a_env = EnvUnset
    /\ a_configs = <<>>
    /\ a_pc = "idle"
    /\ a_req = NoAdminReq
    /\ a_items = <<>>
    /\ a_resp = NoResponse
    /\ a_started = MaxAdminRequests
    /\ a_log = AdminLog(NoSnapshot, NoBody, NoLoaded, <<>>)
    /\ a_init = [err |-> "nil", isNil |-> FALSE]

\* The server takes the next admin request.
AdminAccepts ==
    /\ a_pc = "idle"
    /\ a_started < MaxAdminRequests
    /\ a_started' = a_started + 1
    /\ a_items' = <<>>

\* A handler that answers in one step: the response, and the store and the
\* file as it leaves them.
Answers(body, resp, configs, file) ==
    /\ a_resp' = IF a_init.isNil THEN NotInitialized(resp.op) ELSE resp
    /\ a_configs' = IF a_init.isNil THEN a_configs ELSE configs
    /\ a_file' = IF a_init.isNil THEN a_file ELSE file
    /\ a_pc' = "idle"
    /\ a_req' = NoAdminReq
    /\ a_log' = AdminLog(Snapshot(a_configs, a_file), body, NoLoaded, <<>>)

\* GET /api/config
handleGetConfig ==
    /\ AdminAccepts
    /\ Answers(NoBody, Response("get", 200, NoErrText, a_configs, Len(a_configs)),
               a_configs, a_file)
    /\ UNCHANGED a_env
    /\ UNCHANGED a_init
    /\ UNCHANGED notAdminVars

\* POST /api/config
handleAddConfig ==
    /\ AdminAccepts
    /\ \E body \in ConfigBodies :
           LET v == ValidateConfig(body)
           IN  IF v.status # 0
               THEN Answers(body, Response("add", v.status, ErrText("invalid", NoQuote), <<>>, 0),
                            a_configs, a_file)
               ELSE \E r \in AddConfig(a_configs, a_file, v.config) :
                        /\ Len(a_configs) < MaxRecords
                        /\ Answers(body, Response("add", AddStatus(r.err),
                                            IF r.err = "nil" THEN NoErrText
                                            ELSE ErrText("save failed", NoQuote),
                                            <<>>, 0),
                                   r.configs, r.file)
    /\ UNCHANGED a_env
    /\ UNCHANGED a_init
    /\ UNCHANGED notAdminVars

\* PUT /api/config/:index
handleUpdateConfig ==
    /\ AdminAccepts
    /\ \E param \in IndexParams, body \in ConfigBodies :
           LET v == ValidateConfig(body)
           IN  IF ~param.numeric \/ v.status # 0
               THEN Answers(body, Response("update", 400, ErrText("invalid", NoQuote), <<>>, 0),
                            a_configs, a_file)
               ELSE \E r \in UpdateConfig(a_configs, a_file, param.value, v.config) :
                        Answers(body, Response("update", UpdateStatus(r.err),
                                         IF r.err = "nil" THEN NoErrText
                                         ELSE ErrText("update failed", NoQuote),
                                         <<>>, 0),
                                r.configs, r.file)
    /\ UNCHANGED a_env
    /\ UNCHANGED a_init
    /\ UNCHANGED notAdminVars

\* DELETE /api/config/:index
handleDeleteConfig ==
    /\ AdminAccepts
    /\ \E param \in IndexParams :
           IF ~param.numeric
           THEN Answers(NoBody, Response("delete", 400, ErrText("invalid", NoQuote), <<>>, 0),
                        a_configs, a_file)
           ELSE \E r \in DeleteConfig(a_configs, a_file, param.value) :
                    Answers(NoBody, Response("delete", UpdateStatus(r.err),
                                     IF r.err = "nil" THEN NoErrText
                                     ELSE ErrText("delete failed", NoQuote),
                                     <<>>, 0),
                            r.configs, r.file)
    /\ UNCHANGED a_env
    /\ UNCHANGED a_init
    /\ UNCHANGED notAdminVars

\* One entry of the "tokens" array: the fields a claim reads, and beside
\* them the record, the refresh and the probe the entry was built from.
TokenData(index, status, error, config, refresh, probed, resp) ==
    [index |-> index, status |-> status, error |-> error, config |-> config,
     refresh |-> refresh, probed |-> probed, resp |-> resp]

NoRefresh == [err |-> "none", token |-> NoToken]

NoProbe == [transport |-> "do_error", code |-> 0, body |-> GarbageBody]

\* tokenData["error"] after the switch on usageResult.Status: the ban
\* reason, the probe's error text, or no such key.
TokenError(resp) ==
    LET result == CheckUsageLimitsWithStatus(resp)
    IN  IF result.Status = AccountStatusBanned
        THEN ErrText("", Quote("reason", result.BanReason, GarbageBody))
        ELSE IF result.Status = AccountStatusError THEN UsageErrorText(resp)
        ELSE NoErrText

\* The entries the loop body of handleTokenPoolAPI may build for one record.
TokenEntries(index, config) ==
    IF config.Disabled
    THEN {TokenData(index, AccountStatusDisabled, ErrText("disabled", NoQuote),
                    config, NoRefresh, FALSE, NoProbe)}
    ELSE UNION {
        IF r.err # "nil"
        THEN {TokenData(index, AccountStatusError,
                        ErrText(r.err, Quote("go error", "", GarbageBody)),
                        config, r, FALSE, NoProbe)}
        ELSE IF r.token.expired
        THEN {TokenData(index, AccountStatusExpired, ErrText("expired", NoQuote),
                        config, r, FALSE, NoProbe)}
        ELSE {TokenData(index, CheckUsageLimitsWithStatus(resp).Status,
                        TokenError(resp), config, r, TRUE, resp) :
                resp \in ProbeResponses}
        : r \in refreshSingleTokenByConfig(config)}

RECURSIVE CountStatus(_, _)
CountStatus(items, status) ==
    IF items = <<>> THEN 0
    ELSE (IF Head(items).status = status THEN 1 ELSE 0)
         + CountStatus(Tail(items), status)

\* GET /api/tokens: auth.GetConfigs(), then 500, the empty 200, or the loop.
handleTokenPoolAPI ==
    /\ AdminAccepts
    /\ LET loaded == loadConfigs(a_file, a_env)
           log == AdminLog(Snapshot(a_configs, a_file), NoBody, loaded, <<>>)
       IN  /\ a_log' = log
           /\ IF loaded.err # "nil"
              THEN /\ a_resp' = Response("tokens", 500,
                                         ErrText("load failed", Quote("go error", "", GarbageBody)),
                                         <<>>, 0)
                   /\ a_pc' = "idle"
                   /\ a_req' = NoAdminReq
              ELSE IF Len(loaded.configs) = 0
              THEN /\ a_resp' = Response("tokens", 200, NoErrText, <<>>, 0)
                   /\ a_pc' = "idle"
                   /\ a_req' = NoAdminReq
              ELSE /\ a_resp' = NoResponse
                   /\ a_pc' = "tokens"
                   /\ a_req' = [op |-> "tokens", list |-> loaded.configs, i |-> 1]
    /\ UNCHANGED <<a_configs, a_file, a_env>>
    /\ UNCHANGED a_init
    /\ UNCHANGED notAdminVars

\* One pass of "for i, authConfig := range configs".
TokenPoolEntry ==
    /\ a_pc = "tokens"
    /\ a_req.i <= Len(a_req.list)
    /\ \E entry \in TokenEntries(a_req.i - 1, a_req.list[a_req.i]) :
           /\ a_items' = Append(a_items, entry)
           /\ a_log' = IF entry.refresh.err = "nil"
                       THEN [a_log EXCEPT !.refreshes =
                                Append(@, Refresh(entry.config, entry.refresh.token,
                                                  ConfigsOfFile(a_file) # <<>>))]
                       ELSE a_log
    /\ a_req' = [a_req EXCEPT !.i = @ + 1]
    /\ UNCHANGED <<a_pc, a_configs, a_file, a_env, a_resp, a_started>>
    /\ UNCHANGED a_init
    /\ UNCHANGED notAdminVars

\* The closing c.JSON(http.StatusOK, ...) of handleTokenPoolAPI.
TokenPoolRespond ==
    /\ a_pc = "tokens"
    /\ a_req.i > Len(a_req.list)
    /\ a_resp' = Response("tokens", 200, NoErrText, a_items,
                          CountStatus(a_items, AccountStatusActive))
    /\ a_pc' = "idle"
    /\ a_req' = NoAdminReq
    /\ UNCHANGED <<a_configs, a_file, a_env, a_items, a_started, a_log>>
    /\ UNCHANGED a_init
    /\ UNCHANGED notAdminVars

\* ImportAccountInput: the fields the handler reads.
ImportAccountInput(refreshToken, clientId, clientSecret) ==
    [RefreshToken |-> refreshToken, ClientID |-> clientId, ClientSecret |-> clientSecret]

\* The bodies of POST /api/config/import: one that does not bind, the empty
\* array, and arrays of accounts with and without the fields of each kind.
ImportBodies ==
    LET noToken == ImportAccountInput("", "cid", "secret")
        social == ImportAccountInput("rt-x", "", "")
        idc == ImportAccountInput("rt-y", "cid", "secret")
        half == ImportAccountInput("rt-z", "cid", "")
    IN  {[json |-> FALSE, inputs |-> <<>>]}
        \cup {[json |-> TRUE, inputs |-> l] :
                l \in {<<>>, <<noToken>>, <<social>>, <<idc>>, <<half>>,
                       <<noToken, social>>, <<idc, half>>}}

\* ImportResult
ImportResult(index, status, message) ==
    [index |-> index, status |-> status, message |-> message]

\* What one pass of the import loop leaves: its result, the store, the
\* file, and its refresh when that succeeded.
ImportOutcome(result, configs, file, refreshes) ==
    [result |-> result, configs |-> configs, file |-> file, refreshes |-> refreshes]

\* The record the import handler builds from one input.
ImportedConfig(input) ==
    IF input.ClientID # "" /\ input.ClientSecret # ""
    THEN AuthConfig(AuthMethodIdC, input.RefreshToken, input.ClientID,
                    input.ClientSecret, FALSE)
    ELSE AuthConfig(AuthMethodSocial, input.RefreshToken, "", "", FALSE)

\* "if tokenInfo.RefreshToken != "" { authConfig.RefreshToken = ... }"
WithRefreshToken(authConfig, token) ==
    IF token.RefreshToken # ""
    THEN [authConfig EXCEPT !.RefreshToken = token.RefreshToken]
    ELSE authConfig

\* The outcomes of one pass of "for i, input := range inputs".
ImportEntries(index, input, configs, file) ==
    IF input.RefreshToken = ""
    THEN {ImportOutcome(ImportResult(index, "error", ErrText("empty refresh token", NoQuote)),
                        configs, file, <<>>)}
    ELSE LET authConfig == ImportedConfig(input)
         IN  UNION {
             IF r.err # "nil"
             THEN {ImportOutcome(ImportResult(index, "error",
                                              ErrText(r.err, Quote("go error", "", GarbageBody))),
                                 configs, file, <<>>)}
             ELSE UNION {
                 LET usageResult == CheckUsageLimitsWithStatus(resp)
                 IN  IF usageResult.Status = AccountStatusBanned
                     THEN {ImportOutcome(
                              ImportResult(index, "banned",
                                           ErrText("banned", Quote("reason", usageResult.BanReason,
                                                                   GarbageBody))),
                              configs, file, <<Refresh(authConfig, r.token, FALSE)>>)}
                     ELSE IF usageResult.Error # ""
                     THEN {ImportOutcome(ImportResult(index, "error", UsageErrorText(resp)),
                                         configs, file,
                                         <<Refresh(authConfig, r.token, FALSE)>>)}
                     ELSE {ImportOutcome(
                              IF a.err = "nil"
                              THEN ImportResult(index, "success", ErrText("imported", NoQuote))
                              ELSE ImportResult(index, "error",
                                                ErrText("save failed",
                                                        Quote("go error", "", GarbageBody))),
                              a.configs, a.file, <<Refresh(authConfig, r.token, TRUE)>>) :
                            a \in AddConfig(configs, file, WithRefreshToken(authConfig, r.token))}
                 : resp \in ProbeResponses}
             : r \in RefreshOutcomes(authConfig)}

\* POST /api/config/import up to the loop: 400 for a body that does not
\* bind or is empty.
handleImportConfig ==
    /\ AdminAccepts
    /\ \E body \in ImportBodies :
           /\ Len(a_configs) + Len(body.inputs) <= MaxRecords
           /\ a_log' = AdminLog(Snapshot(a_configs, a_file), NoBody, NoLoaded, <<>>)
           /\ IF a_init.isNil
              THEN /\ a_resp' = NotInitialized("import")
                   /\ a_pc' = "idle"
                   /\ a_req' = NoAdminReq
              ELSE IF ~body.json \/ Len(body.inputs) = 0
              THEN /\ a_resp' = Response("import", 400, ErrText("invalid", NoQuote), <<>>, 0)
                   /\ a_pc' = "idle"
                   /\ a_req' = NoAdminReq
              ELSE /\ a_resp' = NoResponse
                   /\ a_pc' = "import"
                   /\ a_req' = [op |-> "import", list |-> body.inputs, i |-> 1]
    /\ UNCHANGED <<a_configs, a_file, a_env>>
    /\ UNCHANGED a_init
    /\ UNCHANGED notAdminVars

\* One pass of the import loop.
ImportEntry ==
    /\ a_pc = "import"
    /\ a_req.i <= Len(a_req.list)
    /\ \E o \in ImportEntries(a_req.i - 1, a_req.list[a_req.i], a_configs, a_file) :
           /\ a_items' = Append(a_items, o.result)
           /\ a_configs' = o.configs
           /\ a_file' = o.file
           /\ a_log' = [a_log EXCEPT !.refreshes = @ \o o.refreshes]
    /\ a_req' = [a_req EXCEPT !.i = @ + 1]
    /\ UNCHANGED <<a_pc, a_env, a_resp, a_started>>
    /\ UNCHANGED a_init
    /\ UNCHANGED notAdminVars

\* The closing c.JSON(http.StatusOK, ...) of handleImportConfig.
ImportRespond ==
    /\ a_pc = "import"
    /\ a_req.i > Len(a_req.list)
    /\ a_resp' = Response("import", 200, NoErrText, a_items,
                          CountStatus(a_items, "success"))
    /\ a_pc' = "idle"
    /\ a_req' = NoAdminReq
    /\ UNCHANGED <<a_configs, a_file, a_env, a_items, a_started, a_log>>
    /\ UNCHANGED a_init
    /\ UNCHANGED notAdminVars

AdminNext ==
    \/ handleGetConfig
    \/ handleAddConfig
    \/ handleUpdateConfig
    \/ handleDeleteConfig
    \/ handleTokenPoolAPI
    \/ TokenPoolEntry
    \/ TokenPoolRespond
    \/ handleImportConfig
    \/ ImportEntry
    \/ ImportRespond

(***************************************************************************)
(* The POST /v1/messages route handler (StartServer) up to its dispatch    *)
(***************************************************************************)
\* A JSON value of the tools array: an object, given by its key/value
\* pairs, or a value of another JSON type.
Object(fields) == [object |-> TRUE, fields |-> fields]

NotAnObject == [object |-> FALSE, fields |-> {}]

HasKey(entry, key) == \E p \in entry.fields : p[1] = key

\* The tool entries a client may send: the canonical three keys, the three
\* keys among others, objects lacking one of them, and a bare string.
ToolEntries ==
    {Object({<<"name", "get_weather">>, <<"description", "d">>, <<"input_schema", "s">>}),
     Object({<<"name", "get_weather">>, <<"description", "d">>, <<"input_schema", "s">>,
             <<"cache_control", "c">>}),
     Object({<<"name", "get_weather">>, <<"input_schema", "s">>}),
     Object({<<"type", "web_search_20250305">>, <<"name", "web_search">>}),
     NotAnObject}

\* rawReq["tools"]: the key is absent, null, an array, or another value.
ToolsValue(kind, entries) == [kind |-> kind, entries |-> entries]

RawTools ==
    {ToolsValue(k, <<>>) : k \in {"absent", "null", "other"}}
    \cup {ToolsValue("array", l) : l \in SeqsUpTo(ToolEntries, MaxTools)}

\* Message text as a sequence of tokens, blanks among them.
Blanks == {" ", "\t"}

Sentinel == <<"answer", " ", "for", " ", "user", " ", "question">>

\* strings.TrimSpace: the text without its leading and trailing blanks.
RECURSIVE TrimLeft(_)
TrimLeft(text) ==
    IF text # <<>> /\ Head(text) \in Blanks THEN TrimLeft(Tail(text)) ELSE text

RECURSIVE TrimRight(_)
TrimRight(text) ==
    IF text # <<>> /\ text[Len(text)] \in Blanks
    THEN TrimRight(SubSeq(text, 1, Len(text) - 1))
    ELSE text

TrimSpace(text) == TrimRight(TrimLeft(text))

\* What utils.GetMessageContent makes of a message's content: an error, or
\* its text.
MessageContents ==
    {[ok |-> FALSE, text |-> <<>>]}
    \cup {[ok |-> TRUE, text |-> t] :
            t \in {<<>>, <<" ">>, <<"\t", " ">>, Sentinel,
                   <<" ">> \o Sentinel \o <<"\t">>, <<"answer">>,
                   <<"hi">>, <<" ", "hi", " ">>}}

\* The request bodies: one that is not a JSON object, and objects with
\* each tools value, whose re-serialized form binds to AnthropicRequest or
\* does not, with no message, one, or two.
RawRequests ==
    {[json |-> FALSE, binds |-> FALSE, stream |-> FALSE,
      tools |-> ToolsValue("absent", <<>>), messages |-> <<>>]}
    \cup [json : {TRUE}, binds : BOOLEAN, stream : BOOLEAN, tools : RawTools,
          messages : {<<>>} \cup {<<m>> : m \in MessageContents}
                     \cup {<<[ok |-> TRUE, text |-> <<"hi">>], m>> :
                             m \in MessageContents}]

\* "if name, hasName := toolMap["name"]; hasName { if description ... "
IsSimplifiedTool(toolMap) ==
    HasKey(toolMap, "name") /\ HasKey(toolMap, "description")
    /\ HasKey(toolMap, "input_schema")

\* normalizedTool: the three keys of toolMap and nothing else.
NormalizedTool(toolMap) ==
    Object({p \in toolMap.fields : p[1] \in {"name", "description", "input_schema"}})

\* "for _, tool := range toolsArray": an object is appended, rewritten when
\* it has the three keys; any other value is not appended.
RECURSIVE NormalizedTools(_)
NormalizedTools(toolsArray) ==
    IF toolsArray = <<>> THEN <<>>
    ELSE LET tool == Head(toolsArray)
         IN  (IF ~tool.object THEN <<>>
              ELSE IF IsSimplifiedTool(tool) THEN <<NormalizedTool(tool)>>
              ELSE <<tool>>)
             \o NormalizedTools(Tail(toolsArray))

\* rawReq["tools"] after the tool format step.
NormalizeToolsValue(tools) ==
    IF tools.kind = "array" THEN ToolsValue("array", NormalizedTools(tools.entries))
    ELSE tools

\* The checks without the comparison with the placeholder text.
MutValidateMessages(raw) ==
    IF ~raw.json THEN 400
    ELSE IF ~raw.binds THEN 400
    ELSE IF Len(raw.messages) = 0 THEN 400
    ELSE LET lastMsg == raw.messages[Len(raw.messages)]
             trimmedContent == TrimSpace(lastMsg.text)
         IN  IF ~lastMsg.ok THEN 400
             ELSE IF trimmedContent = <<>> THEN 400
             ELSE 0

\* The checks between the parse and the dispatch: 0 when the request goes
\* on to a handler, the status answered otherwise.
ValidateMessages(raw) ==
    IF ~raw.json THEN 400
    ELSE IF ~raw.binds THEN 400
    ELSE IF Len(raw.messages) = 0 THEN 400
    ELSE LET lastMsg == raw.messages[Len(raw.messages)]
             trimmedContent == TrimSpace(lastMsg.text)
         IN  IF ~lastMsg.ok THEN 400
             ELSE IF trimmedContent = <<>> \/ trimmedContent = Sentinel THEN 400
             ELSE 0

NoRouteResp == [status |-> 0, next |-> "none", upstream |-> FALSE]

RouteInit ==
    /\ r_pc = "start"
    /\ r_raw \in RawRequests
    /\ r_req = ToolsValue("absent", <<>>)
    /\ r_resp = NoRouteResp

RouteIdle ==
    /\ r_pc = "idle"
    /\ r_raw = [json |-> FALSE, binds |-> FALSE, stream |-> FALSE,
                tools |-> ToolsValue("absent", <<>>), messages |-> <<>>]
    /\ r_req = ToolsValue("absent", <<>>)
    /\ r_resp = NoRouteResp

\* reqCtx.GetTokenWithUsageAndBody() fails: it has answered the client, and
\* the route handler returns.
GetTokenFails ==
    /\ r_pc = "start"
    /\ \E status \in {401, 500, 503} :
           r_resp' = [status |-> status, next |-> "none", upstream |-> FALSE]
    /\ r_pc' = "failed"
    /\ UNCHANGED <<r_raw, r_req>>
    /\ UNCHANGED notRouteVars

\* reqCtx.GetTokenWithUsageAndBody() returns the token and the body.
GetTokenWithUsageAndBody ==
    /\ r_pc = "start"
    /\ r_pc' = "body"
    /\ UNCHANGED <<r_raw, r_req, r_resp>>
    /\ UNCHANGED notRouteVars

\* The rest of the route handler: the tool format step, the checks, and
\* handleStreamRequest or handleNonStreamRequest, which call the upstream.
RouteMessages ==
    /\ r_pc = "body"
    /\ r_req' = IF r_raw.json THEN NormalizeToolsValue(r_raw.tools) ELSE r_req
    /\ LET status == ValidateMessages(r_raw)
       IN  r_resp' = IF status # 0
                     THEN [status |-> status, next |-> "none", upstream |-> FALSE]
                     ELSE [status |-> 0,
                           next |-> IF r_raw.stream THEN "handleStreamRequest"
                                    ELSE "handleNonStreamRequest",
                           upstream |-> TRUE]
    /\ r_pc' = "done"
    /\ UNCHANGED r_raw
    /\ UNCHANGED notRouteVars

RouteNext == GetTokenFails \/ GetTokenWithUsageAndBody \/ RouteMessages

(***************************************************************************)
(* maskEmail: server/config_handler.go                                     *)
(***************************************************************************)
\* A string is the sequence of its bytes.
\* strings.Repeat("*", n)
Stars(n) == [i \in 1..n |-> "*"]

\* strings.Split(s, sep) for a one-byte separator: the pieces between the
\* separators, one more than there are separators.
RECURSIVE Split(_, _)
Split(s, sep) ==
    IF \A i \in 1..Len(s) : s[i] # sep THEN <<s>>
    ELSE LET first == CHOOSE i \in 1..Len(s) :
                          s[i] = sep /\ \A j \in 1..(i - 1) : s[j] # sep
         IN  <<SubSeq(s, 1, first - 1)>> \o Split(SubSeq(s, first + 1, Len(s)), sep)

\* strings.Join(parts, sep)
RECURSIVE Join(_, _)
Join(parts, sep) ==
    IF parts = <<>> THEN <<>>
    ELSE IF Len(parts) = 1 THEN parts[1]
    ELSE parts[1] \o <<sep>> \o Join(Tail(parts), sep)

\* maskedUsername keeping the first three bytes instead of two.
MutMaskedUsername(username) ==
    IF Len(username) <= 4 THEN Stars(Len(username))
    ELSE SubSeq(username, 1, 3) \o Stars(Len(username) - 5)
         \o SubSeq(username, Len(username) - 1, Len(username))

\* maskedUsername: the first two and the last two bytes around stars, or
\* stars only when there are at most four bytes.
MaskedUsername(username) ==
    IF Len(username) <= 4 THEN Stars(Len(username))
    ELSE SubSeq(username, 1, 2) \o Stars(Len(username) - 4)
         \o SubSeq(username, Len(username) - 1, Len(username))

\* maskedDomain with a two-label domain starred whole.
MutMaskedDomain(domain) ==
    LET domainParts == Split(domain, ".")
        n == Len(domainParts)
    IN  IF n = 1 THEN Stars(Len(domain))
        ELSE IF n = 2
             THEN Stars(Len(domainParts[1])) \o <<".">> \o Stars(Len(domainParts[2]))
        ELSE Join([i \in 1..n |-> IF i <= n - 2 THEN Stars(Len(domainParts[i]))
                                  ELSE domainParts[i]], ".")

\* maskedDomain: by the number of labels.
MaskedDomain(domain) ==
    LET domainParts == Split(domain, ".")
        n == Len(domainParts)
    IN  IF n = 1 THEN Stars(Len(domain))
        ELSE IF n = 2 THEN Stars(Len(domainParts[1])) \o <<".">> \o domainParts[2]
        ELSE Join([i \in 1..n |-> IF i <= n - 2 THEN Stars(Len(domainParts[i]))
                                  ELSE domainParts[i]], ".")

maskEmail(email) ==
    IF email = <<>> THEN <<>>
    ELSE LET parts == Split(email, "@")
         IN  IF Len(parts) # 2 THEN email
             ELSE MaskedUsername(parts[1]) \o <<"@">> \o MaskedDomain(parts[2])

\* The local parts and the domain labels the addresses are made of.
Usernames ==
    {<<>>, <<"a">>, <<"a", "b", "a", "b">>, <<"b", "a", "a", "b">>,
     <<"a", "b", "a", "b", "a">>, <<"a", "b", "b", "b", "a">>,
     <<"a", "b", "a", "a", "b", "a">>, <<"a", "b", "b", "b", "b", "a">>}

Labels == {<<"x">>, <<"y">>, <<"x", "y">>}

\* The addresses: a local part, "@" and one to MaxLabels labels; and the
\* strings that are no address: the empty one, one without "@", one with
\* two, one whose domain ends in a dot.
Emails ==
    {u \o <<"@">> \o Join(d, ".") :
        u \in Usernames, d \in SeqsUpTo(Labels, MaxLabels) \ {<<>>}}
    \cup {<<>>, <<"a", "b">>, <<"a", "@", "b", "@", "x", ".", "y">>,
          <<"a", "@", "x", ".">>}

MaskInit ==
    /\ e_pc = "start"
    /\ e_email \in Emails
    /\ e_other = <<>>
    /\ e_masked = <<>>
    /\ e_maskedOther = <<>>

MaskIdle ==
    /\ e_pc = "idle"
    /\ e_email = <<>>
    /\ e_other = <<>>
    /\ e_masked = <<>>
    /\ e_maskedOther = <<>>

\* "user_email": maskEmail(userEmail), for the address and for a second one.
MaskEmails ==
    /\ e_pc = "start"
    /\ \E other \in Emails :
           /\ e_other' = other
           /\ e_maskedOther' = maskEmail(other)
    /\ e_masked' = maskEmail(e_email)
    /\ e_pc' = "done"
    /\ UNCHANGED e_email
    /\ UNCHANGED notMaskVars

MaskNext == MaskEmails

(***************************************************************************)
(* Specifications                                                          *)
(***************************************************************************)
InitUsage ==
    /\ UsageInit
    /\ MsgIdle
    /\ StoreIdle
    /\ AdminIdle
    /\ RouteIdle
    /\ MaskIdle

SpecUsage == InitUsage /\ [][UsageNext]_vars

InitStream ==
    /\ MsgInit
    /\ UsageIdle
    /\ StoreIdle
    /\ AdminIdle
    /\ RouteIdle
    /\ MaskIdle

SpecStream == InitStream /\ [][MsgNext]_vars

InitStore ==
    /\ StoreInit
    /\ UsageIdle
    /\ MsgIdle
    /\ AdminIdle
    /\ RouteIdle
    /\ MaskIdle

SpecStore == InitStore /\ [][StoreNext]_vars

InitAdmin ==
    /\ AdminInit
    /\ UsageIdle
    /\ MsgIdle
    /\ StoreIdle
    /\ RouteIdle
    /\ MaskIdle

SpecAdmin == InitAdmin /\ [][AdminNext]_vars

InitRoute ==
    /\ RouteInit
    /\ UsageIdle
    /\ MsgIdle
    /\ StoreIdle
    /\ AdminIdle
    /\ MaskIdle

SpecRoute == InitRoute /\ [][RouteNext]_vars

InitMask ==
    /\ MaskInit
    /\ UsageIdle
    /\ MsgIdle
    /\ StoreIdle
    /\ AdminIdle
    /\ RouteIdle

SpecMask == InitMask /\ [][MaskNext]_vars

(***************************************************************************)
(* Claims about the stream (SpecStream)                                    *)
(***************************************************************************)
Positions(type) == {k \in 1..Len(m_sent) : m_sent[k].type = type}

BlockEvents == {"content_block_start", "content_block_delta", "content_block_stop"}

TextStarts ==
    {k \in Positions("content_block_start") : m_sent[k].block = "text"}

\* The events end with the stops of the open blocks, one message_delta and
\* message_stop.
ProperlyTerminated ==
    LET n == Len(m_sent)
    IN  /\ n >= 2
        /\ m_sent[n].type = "message_stop"
        /\ m_sent[n - 1].type = "message_delta"
        /\ Cardinality(Positions("message_delta")) = 1
        /\ \A k \in Positions("content_block_start") :
               \E j \in Positions("content_block_stop") :
                   j > k /\ j < n - 1 /\ m_sent[j].index = m_sent[k].index

\* C1: once message_start was sent, every end of the request with the client
\* still connected, an upstream read or parse failure in mid-stream
\* included, has sent the stop of each open block, one message_delta and
\* message_stop last.
C1_StreamNeverTruncated ==
    (m_pc = "done" /\ m_client = "connected" /\ Positions("message_start") # {})
        => ProperlyTerminated

\* Start and stop of a block in order, nothing for a block after its stop,
\* and every stop before message_delta: the part of C2 that holds of every
\* prefix of the stream.
BlockOrder ==
    /\ \A j \in Positions("content_block_stop") :
           \E k \in Positions("content_block_start") :
               k < j /\ m_sent[k].index = m_sent[j].index
    /\ \A j \in Positions("content_block_stop") :
           \A k \in (j + 1)..Len(m_sent) :
               m_sent[k].type \in BlockEvents => m_sent[k].index # m_sent[j].index
    /\ \A j \in Positions("content_block_stop") :
           \A k \in Positions("message_delta") : j < k

\* Every started block has its stop.
AllBlocksStopped ==
    \A k \in Positions("content_block_start") :
        Cardinality({j \in Positions("content_block_stop") :
                         m_sent[j].index = m_sent[k].index}) = 1

\* C2: in every SSE session each content_block_start for index i is followed
\* by exactly one content_block_stop for i, no event for i follows that
\* stop, and every stop precedes message_delta, whatever the upstream sends.
C2_BlocksPaired ==
    /\ BlockOrder
    /\ (m_pc = "done" /\ m_client = "connected") => AllBlocksStopped

\* The same pairing over the sessions that end through sendFinalEvents.
BlocksPairedWhenFinished ==
    /\ BlockOrder
    /\ (m_pc = "done" /\ m_outcome = "ok") => AllBlocksStopped

\* C3: a stream that ends normally starts with message_start and ping and
\* ends with exactly one message_delta directly followed by message_stop;
\* the message_delta carries the input_tokens of message_start, which is the
\* estimator's value for the normalized request.
C3_NormalStreamShape ==
    (m_pc = "done" /\ m_req.stream /\ m_outcome = "ok") =>
        LET n == Len(m_sent)
        IN  /\ n >= 4
            /\ m_sent[1].type = "message_start"
            /\ m_sent[2].type = "ping"
            /\ m_sent[n].type = "message_stop"
            /\ m_sent[n - 1].type = "message_delta"
            /\ Cardinality(Positions("message_delta")) = 1
            /\ Cardinality(Positions("message_stop")) = 1
            /\ m_sent[n - 1].input_tokens = m_sent[1].input_tokens
            /\ m_sent[1].input_tokens = EstimateTokens(CountTokensRequest(m_req))

\* A stream that ended normally after a text block and a tool block.
C3_Witness ==
    /\ m_pc = "done"
    /\ m_req.stream
    /\ m_outcome = "ok"
    /\ TextStarts # {}
    /\ m_session.sawToolUse
    /\ m_sent[Len(m_sent) - 1].stop_reason = "tool_use"

\* C4: the initial events hold no content_block_start; a text block starts
\* only with a non-empty text delta, which follows it at once; without
\* non-empty upstream text (only tool events, say) neither the stream nor
\* the non-streaming content array holds a text block.
C4_NoEmptyTextBlock ==
    /\ m_consumed = <<>> => Positions("content_block_start") = {}
    /\ \A k \in TextStarts :
           /\ \E j \in 1..Len(m_consumed) : NonEmptyText(m_consumed[j])
           /\ k < Len(m_sent) =>
                  /\ m_sent[k + 1].type = "content_block_delta"
                  /\ m_sent[k + 1].index = m_sent[k].index
                  /\ m_sent[k + 1].text # ""
    /\ (\A j \in 1..Len(m_consumed) : ~NonEmptyText(m_consumed[j])) =>
           /\ TextStarts = {}
           /\ \A b \in 1..Len(m_ns.content) : m_ns.content[b].type # "text"
    /\ \A b \in 1..Len(m_ns.content) :
           m_ns.content[b].type = "text" => m_ns.content[b].text # <<>>

\* Tool events only, answered in both modes: a finished stream with a tool
\* block, or a non-streaming response whose content is one tool_use block.
C4_Witness ==
    /\ m_pc = "done"
    /\ m_outcome = "ok"
    /\ m_consumed # <<>>
    /\ \A j \in 1..Len(m_consumed) : m_consumed[j].kind = "tool"
    /\ \/ Positions("content_block_stop") # {}
       \/ Len(m_ns.content) = 1

(***************************************************************************)
(* Claims about the credential store (SpecStore)                           *)
(***************************************************************************)
\* No task is inside AddConfig, UpdateConfig or DeleteConfig.
Quiescent == \A w \in Workers : s_w[w].pc \notin {"Body", "Assign", "Save", "Write"}

Succeeded(m) == m.err = "nil"

PassedRangeCheck(m) == m.err # "ErrNotExist"

\* The orders in which n mutations can be applied.
Orders(n) == {f \in [1..n -> 1..n] : \A i, j \in 1..n : f[i] = f[j] => i = j}

\* One mutation applied to a list, as the store's operations are specified.
Applicable(list, m) == m.op = "add" \/ (m.index >= 0 /\ m.index < Len(list))

Applied(list, m) ==
    IF m.op = "add" THEN list \o <<m.config>>
    ELSE IF m.op = "update"
    THEN [k \in 1..Len(list) |-> IF k = m.index + 1 THEN m.config ELSE list[k]]
    ELSE [k \in 1..(Len(list) - 1) |-> IF k <= m.index THEN list[k] ELSE list[k + 1]]

\* The mutations ms applied to `list` from the k-th of `order` on give `final`.
RECURSIVE ReplayGives(_, _, _, _, _)
ReplayGives(list, ms, order, k, final) ==
    IF k > Len(ms) THEN list = final
    ELSE /\ Applicable(list, ms[order[k]])
         /\ ReplayGives(Applied(list, ms[order[k]]), ms, order, k + 1, final)

Serializable(initial, ms, final) ==
    \E order \in Orders(Len(ms)) : ReplayGives(initial, ms, order, 1, final)

\* C5: under any interleaving of AddConfig, UpdateConfig, DeleteConfig and
\* GetConfigs the final list is the result of applying the successful
\* mutations in some sequential order, and every GetConfigs result is a list
\* the store held between two mutations.
C5_MutationsSerialize ==
    /\ Quiescent =>
           Serializable(s_hist.initial, SelectSeq(s_hist.log, Succeeded), s_configs)
    /\ \A w \in Workers :
           (s_w[w].op = "get" /\ s_w[w].http = 200) =>
               s_w[w].result \in s_hist.committed

\* The same with every mutation that passed its range check counted as
\* applied, whatever its save returned: this is what the mutex provides.
MutationsSerializeAsApplied ==
    /\ Quiescent =>
           Serializable(s_hist.initial, SelectSeq(s_hist.log, PassedRangeCheck),
                        s_configs)
    /\ \A w \in Workers :
           (s_w[w].op = "get" /\ s_w[w].http = 200) =>
               s_w[w].result \in s_hist.committed

\* C6: no reader of the credential file, the loadConfigs of GET /api/tokens
\* included, reads it while a save is in progress.
C6_NoReadDuringSave ==
    \A w \in Workers : ~(s_w[w].read.done /\ s_w[w].read.saving)

\* C7: at every instant the file holds the complete list of before the
\* latest save or the complete list that save writes.
C7_SaveIsAtomic ==
    s_file \in {s_hist.saveBefore, CompleteFile(s_hist.saveData)}

\* C8: UpdateConfig(i, rec) and DeleteConfig(i) with i < 0 or i >= len(list)
\* return the not-found error and leave the list and the file as they were;
\* the PUT and DELETE handlers answer 404.
C8_OutOfRangeIsNotFound ==
    \A w \in Workers :
        LET t == s_w[w]
        IN  (/\ t.pc = "idle"
             /\ t.op \in {"update", "delete"}
             /\ t.err # ""
             /\ (t.index < 0 \/ t.index >= Len(t.before.configs))) =>
                /\ t.err = "ErrNotExist"
                /\ t.after = t.before
                /\ t.http = 404

\* On a store holding records in memory and in its file, one task was
\* answered for an update at index len(list) and the other for a delete at
\* index -1.
C8_Witness ==
    \E w, v \in Workers :
        /\ s_w[w].pc = "idle" /\ s_w[v].pc = "idle"
        /\ s_w[w].op = "update" /\ s_w[w].err = "ErrNotExist"
        /\ s_w[w].index = Len(s_w[w].before.configs)
        /\ s_w[w].index > 0
        /\ s_w[w].before.file.state = "complete"
        /\ s_w[w].http = 404
        /\ s_w[v].op = "delete" /\ s_w[v].err = "ErrNotExist"
        /\ s_w[v].index = -1
        /\ s_w[v].http = 404
        /\ s_configs = s_hist.initial

(***************************************************************************)
(* Claims about the usage prober (SpecUsage)                               *)
(***************************************************************************)
RECURSIVE BonusesLeft(_)
BonusesLeft(bonuses) ==
    IF bonuses = <<>> THEN 0
    ELSE (Head(bonuses).UsageLimit - Head(bonuses).CurrentUsage)
         + BonusesLeft(Tail(bonuses))

\* Available as the spec defines it: the sum of (limit - used) over the base
\* quota of the CREDIT resource, its free trial when ACTIVE and its bonuses,
\* clamped below at 0.
SpecAvailable(list) ==
    LET credit == {i \in 1..Len(list) : list[i].ResourceType = "CREDIT"}
    IN  IF credit = {} THEN 0
        ELSE LET b == list[CHOOSE i \in credit : \A j \in credit : i <= j]
                 left == (b.UsageLimitWithPrecision - b.CurrentUsageWithPrecision)
                         + (IF ~b.FreeTrialInfo.isNil
                               /\ b.FreeTrialInfo.FreeTrialStatus = "ACTIVE"
                            THEN b.FreeTrialInfo.UsageLimitWithPrecision
                                 - b.FreeTrialInfo.CurrentUsageWithPrecision
                            ELSE 0)
                         + BonusesLeft(b.Bonuses)
             IN  IF left < 0 THEN 0 ELSE left

WellFormed200 ==
    /\ u_resp.transport = "ok"
    /\ u_resp.code = 200
    /\ u_resp.body.json /\ u_resp.body.object /\ u_resp.body.typed

\* A non-200 response whose JSON body carries a reason: the "reason" key of
\* a JSON object, holding a string.
Non200WithReason ==
    /\ u_resp.transport = "ok"
    /\ u_resp.code # 200
    /\ u_resp.body.json /\ u_resp.body.object
    /\ u_resp.body.reason \in ReasonStrings

\* C9: a probe gets exactly one status: for HTTP 200 with a parseable body,
\* exhausted iff available <= 0 and active otherwise; for a non-200 response
\* whose JSON body carries a reason, banned with that reason as banReason;
\* for every other non-200, transport or parse failure, error.
C9_ProbeClassification ==
    u_pc \in {"probed", "counted"} =>
        /\ WellFormed200 =>
               /\ u_result.Available = SpecAvailable(u_resp.body.list)
               /\ u_result.Status = IF SpecAvailable(u_resp.body.list) <= 0
                                    THEN AccountStatusExhausted
                                    ELSE AccountStatusActive
        /\ Non200WithReason =>
               /\ u_result.Status = AccountStatusBanned
               /\ u_result.BanReason = u_resp.body.reason
        /\ (~WellFormed200 /\ ~Non200WithReason) =>
               /\ u_result.Status = AccountStatusError
               /\ u_result.BanReason = ""

\* A 200 whose quota is used up exactly: limit equals usage, so exhausted.
C9_Witness ==
    /\ u_pc = "probed"
    /\ WellFormed200
    /\ FirstCredit(u_resp.body.list) # 0
    /\ u_result.TotalLimit > 0
    /\ u_result.TotalLimit = u_result.TotalUsed
    /\ u_result.Status = AccountStatusExhausted

\* C10: for every usage response TokenWithUsage.GetAvailableCount returns
\* the prober's Available, the clamped sum over base quota, active free
\* trial and all bonuses.
C10_AvailableCountMatchesProber ==
    u_pc = "counted" =>
        /\ u_avail = u_result.Available
        /\ WellFormed200 => u_avail = SpecAvailable(u_resp.body.list)

(***************************************************************************)
(* Claims about the admin API (SpecAdmin)                                  *)
(***************************************************************************)
\* The records of the credential file as GET /api/tokens found it.
FileRecords(file) ==
    IF file.state = "complete" THEN UnmarshalConfigs(file.array) ELSE <<>>

\* A record as the entries name it: with the default auth type filled in.
Typed(config) ==
    IF config.AuthType = "" THEN [config EXCEPT !.AuthType = AuthMethodSocial]
    ELSE config

\* The first status that applies to an entry in the order disabled,
\* expired, banned, error, exhausted, active, read off the record, the
\* refresh and the probe it was built from.
FirstApplicable(entry) ==
    LET refreshed == entry.refresh.err = "nil"
        answered == entry.probed /\ entry.resp.transport = "ok"
        body == entry.resp.body
    IN  IF entry.config.Disabled THEN AccountStatusDisabled
        ELSE IF refreshed /\ entry.refresh.token.expired THEN AccountStatusExpired
        ELSE IF /\ answered /\ entry.resp.code # 200
                /\ body.json /\ body.object /\ body.reason \in ReasonStrings
        THEN AccountStatusBanned
        ELSE IF \/ ~refreshed
                \/ ~answered
                \/ entry.resp.code # 200
                \/ ~(body.json /\ body.object /\ body.typed)
        THEN AccountStatusError
        ELSE IF SpecAvailable(body.list) <= 0 THEN AccountStatusExhausted
        ELSE AccountStatusActive

\* GET /api/tokens has answered.
TokensAnswered == a_pc = "idle" /\ a_resp.op = "tokens"

\* C11: once GET /api/tokens has answered, every record of the credential
\* file has an entry in the answer, and the entry's status is the first that
\* applies in the order disabled, expired, banned, error, exhausted, active.
C11_StatusInOrderForEveryRecord ==
    TokensAnswered =>
        \A k \in 1..Len(FileRecords(a_file)) :
            \E i \in 1..Len(a_resp.items) :
                /\ a_resp.items[i].config = Typed(FileRecords(a_file)[k])
                /\ a_resp.items[i].status = FirstApplicable(a_resp.items[i])

\* Every entry that GET /api/tokens does list carries the first status that
\* applies to it.
ListedStatusInOrder ==
    TokensAnswered =>
        \A i \in 1..Len(a_resp.items) :
            a_resp.items[i].status = FirstApplicable(a_resp.items[i])

\* A refresh of a stored record whose response carries a refresh token other
\* than the one sent.
Rotates(refresh) ==
    /\ refresh.stored
    /\ refresh.token.RefreshToken # ""
    /\ refresh.token.RefreshToken # refresh.config.RefreshToken

\* The store holds the refresh token of the response.
HoldsNewToken(refresh) ==
    \E i \in 1..Len(a_configs) :
        a_configs[i].RefreshToken = refresh.token.RefreshToken

\* C12: when a handler has finished, every refresh it made of a stored
\* record whose response carried another refresh token than the stored one
\* has left the new refresh token in the credential store; for the import
\* handler and for GET /api/tokens alike.
C12_RotatedTokenWrittenBack ==
    a_pc = "idle" =>
        \A k \in 1..Len(a_log.refreshes) :
            Rotates(a_log.refreshes[k]) => HoldsNewToken(a_log.refreshes[k])

\* The import handler stores the rotated refresh token with every record it
\* adds.
ImportWritesRotatedToken ==
    (a_pc = "idle" /\ a_resp.op = "import") =>
        \A k \in 1..Len(a_log.refreshes) :
            Rotates(a_log.refreshes[k]) => HoldsNewToken(a_log.refreshes[k])

\* An error text written by the server alone: it quotes nothing, or the text
\* of an error raised inside the server.
ServerAuthored(text) == text.quote.kind \in {"none", "go error"}

\* The error texts of a response: its own "error" field and, per entry,
\* "error" (GET /api/tokens) or "message" (POST /api/config/import).
ErrorTexts(resp) ==
    {resp.error}
    \cup (IF resp.op = "tokens"
          THEN {resp.items[i].error : i \in 1..Len(resp.items)}
          ELSE IF resp.op = "import"
          THEN {resp.items[i].message : i \in 1..Len(resp.items)}
          ELSE {})

\* C13: whatever the usage endpoint answered, no error field of a response
\* of GET /api/tokens or POST /api/config/import quotes the body of the
\* upstream response.
C13_NoUpstreamBodyInErrors ==
    \A text \in ErrorTexts(a_resp) : text.quote.kind # "body"

\* The stronger reading: the error fields carry only text the server wrote,
\* so none quotes the upstream "reason" either.
OnlyServerAuthoredErrors ==
    \A text \in ErrorTexts(a_resp) : ServerAuthored(text)

\* Every IdC record of a list has a client id and a client secret.
IdCComplete(configs) ==
    \A i \in 1..Len(configs) :
        configs[i].AuthType = AuthMethodIdC =>
            configs[i].ClientID # "" /\ configs[i].ClientSecret # ""

\* The body of the last POST or PUT /api/config is an IdC record lacking
\* its client id or its client secret.
IncompleteIdCBody ==
    /\ a_resp.op \in {"add", "update"}
    /\ a_log.body.json
    /\ a_log.body.config.AuthType = AuthMethodIdC
    /\ (a_log.body.config.ClientID = "" \/ a_log.body.config.ClientSecret = "")

\* C14: a request that finds every IdC record of the store with a client id
\* and a client secret leaves the store so, whether it is POST /api/config,
\* PUT or DELETE /api/config/:index or POST /api/config/import (at every
\* step of its loop); and a POST or PUT whose body is an IdC record without
\* both is answered 400 with the store and the file as it found them.
C14_IdCRecordsStayComplete ==
    /\ IdCComplete(a_log.before.configs) => IdCComplete(a_configs)
    /\ IncompleteIdCBody =>
           /\ a_resp.status = 400
           /\ a_configs = a_log.before.configs
           /\ a_file = a_log.before.file

\* Reached: after an import that added an IdC record to a store of complete
\* records, a PUT with an IdC body lacking its secret was answered 400.
C14_Witness ==
    /\ IncompleteIdCBody
    /\ a_resp.op = "update"
    /\ a_started = 2
    /\ IdCComplete(a_configs)
    /\ \E i \in 1..Len(a_configs) :
           a_configs[i] = AuthConfig(AuthMethodIdC, Rotated, "cid", "secret", FALSE)

\* The filter as the claim words it: a refresh token, not disabled, and not
\* an IdC record lacking its client id or secret.
PassesFilter(config) ==
    /\ config.RefreshToken # ""
    /\ ~config.Disabled
    /\ ~(config.AuthType = AuthMethodIdC
         /\ (config.ClientID = "" \/ config.ClientSecret = ""))

\* The records of a list that pass, in the list's order, a missing auth
\* type read as Social.
Filtered(configs) ==
    LET kept == SelectSeq(configs, PassesFilter)
    IN  [i \in 1..Len(kept) |-> Typed(kept[i])]

\* The lists a run hands to processConfigs: the records of the credential
\* file and of KIRO_AUTH_TOKEN; and the store's own list.
ListsAtHand ==
    {FileRecords(a_file), parseJSONConfig(a_env.content).configs, a_configs}

\* `after` is `before` with one record appended, replaced or removed.
OneRecordChanged(before, after) ==
    \/ /\ Len(after) = Len(before) + 1
       /\ SubSeq(after, 1, Len(before)) = before
    \/ /\ Len(after) = Len(before)
       /\ \E i \in 1..Len(before) :
              \A j \in 1..Len(before) : j # i => after[j] = before[j]
    \/ /\ Len(after) = Len(before) - 1
       /\ \E i \in 1..Len(before) :
              after = SubSeq(before, 1, i - 1) \o SubSeq(before, i + 1, Len(before))

\* C15: processConfigs returns, in their order, exactly the records that
\* have a refresh token, are not disabled and are not IdC records lacking a
\* client id or secret; the store's own list keeps the others: load takes
\* every record of the file, GET /api/config returns the whole list, and a
\* POST, PUT or DELETE changes the one record it is about and no other.
C15_FilterOnlyAtRuntime ==
    /\ \A list \in ListsAtHand : processConfigs(list) = Filtered(list)
    /\ a_started = 0 => a_configs = FileRecords(a_file)
    /\ (a_pc = "idle" /\ a_resp.op = "get") => a_resp.items = a_configs
    /\ (a_pc = "idle" /\ a_resp.op \in {"add", "update", "delete"}) =>
           \/ a_configs = a_log.before.configs
           \/ OneRecordChanged(a_log.before.configs, a_configs)

\* Reached: GET /api/config returns a disabled record and an IdC record
\* without its secret, both of which processConfigs removes.
C15_Witness ==
    /\ a_pc = "idle"
    /\ a_resp.op = "get"
    /\ a_resp.items = <<DisabledC, IdCNoSecret>>
    /\ processConfigs(a_resp.items) = <<>>
    /\ a_started = 2

\* The records KIRO_AUTH_TOKEN yields: those of the file it names, or of
\* the JSON it holds, an array or one object.
EnvRecords(env) ==
    IF env.kind = "unset" THEN <<>>
    ELSE IF env.kind = "path" /\ ~env.readable THEN <<>>
    ELSE IF env.content.json = "array" THEN UnmarshalConfigs(env.content.array)
    ELSE IF env.content.json = "object" THEN <<UnmarshalConfig(env.content.array[1])>>
    ELSE <<>>

\* What loadConfigs owes: the valid records of the file when there are
\* any, else those of KIRO_AUTH_TOKEN, else nothing.
OwedConfigs(file, env) ==
    IF Filtered(FileRecords(file)) # <<>> THEN Filtered(FileRecords(file))
    ELSE Filtered(EnvRecords(env))

\* `loaded` is what loadConfigs owes for `file` and `env`: the owed records
\* without error when there are any, an error when there are none.
LoadsAsOwed(loaded, file, env) ==
    IF OwedConfigs(file, env) # <<>>
    THEN loaded.err = "nil" /\ loaded.configs = OwedConfigs(file, env)
    ELSE loaded.err # "nil"

\* C16: loadConfigs returns the valid records of the credential file when
\* the file yields one, whatever KIRO_AUTH_TOKEN holds; otherwise the valid
\* records of KIRO_AUTH_TOKEN, read as a file when it names one and else as
\* a JSON array or single object; and an error when neither yields a valid
\* record.  Stated of the call GET /api/tokens made and of a call in the
\* current state.
C16_LoadConfigsPriority ==
    /\ LoadsAsOwed(loadConfigs(a_file, a_env), a_file, a_env)
    /\ a_log.loaded # NoLoaded =>
           LoadsAsOwed(a_log.loaded, a_log.before.file, a_env)

\* Reached: GET /api/tokens on a credential file holding only a disabled
\* record got the record of the file KIRO_AUTH_TOKEN names.
C16_Witness ==
    /\ TokensAnswered
    /\ FileRecords(a_log.before.file) = <<DisabledC>>
    /\ a_env.kind = "path"
    /\ a_log.loaded.err = "nil"
    /\ a_log.loaded.configs = <<IdCB>>

(***************************************************************************)
(* Claims about the POST /v1/messages route (SpecRoute)                    *)
(***************************************************************************)
\* `text` is `core` between leading and trailing blanks.
BlankPadded(text, core) ==
    \E i, j \in 0..Len(text) :
        /\ i + Len(core) + j = Len(text)
        /\ \A k \in 1..i : text[k] \in Blanks
        /\ \A k \in (Len(text) - j + 1)..Len(text) : text[k] \in Blanks
        /\ SubSeq(text, i + 1, i + Len(core)) = core

\* The body is a JSON object whose messages array is empty, or whose last
\* message has a text that is blank or the placeholder between blanks.
InvalidMessages(raw) ==
    /\ raw.json
    /\ \/ raw.messages = <<>>
       \/ /\ raw.messages # <<>>
          /\ raw.messages[Len(raw.messages)].ok
          /\ \/ BlankPadded(raw.messages[Len(raw.messages)].text, <<>>)
             \/ BlankPadded(raw.messages[Len(raw.messages)].text, Sentinel)

Canonical(entry) ==
    Object({p \in entry.fields : p[1] \in {"name", "description", "input_schema"}})

HasThreeKeys(entry) ==
    \A key \in {"name", "description", "input_schema"} : HasKey(entry, key)

\* `out` is `in` entry for entry, an entry with the three keys made
\* canonical and any other entry kept as it is.
EntryForEntry(in, out) ==
    /\ Len(out) = Len(in)
    /\ \A k \in 1..Len(in) :
           out[k] = IF HasThreeKeys(in[k]) THEN Canonical(in[k]) ELSE in[k]

\* The route handler has run the tool format step on a tools array.
ToolsNormalized ==
    r_pc = "done" /\ r_raw.json /\ r_raw.tools.kind = "array"

\* C18: the tool format step keeps the tools array entry for entry, entry
\* k canonical when input entry k has the keys name, description and
\* input_schema and input entry k itself otherwise; no entry is dropped,
\* a canonical array comes out unchanged, and the step applied to its own
\* output changes nothing.
C18_ToolsPreservedEntryForEntry ==
    ToolsNormalized =>
        /\ EntryForEntry(r_raw.tools.entries, r_req.entries)
        /\ (\A k \in 1..Len(r_raw.tools.entries) :
                r_raw.tools.entries[k] = Canonical(r_raw.tools.entries[k]))
              => r_req = r_raw.tools
        /\ NormalizeToolsValue(r_req) = r_req

\* The same for the arrays all of whose entries are JSON objects, and
\* without the count for the others: there the step is idempotent and
\* its output holds the objects in order.
ObjectToolsPreserved ==
    ToolsNormalized =>
        /\ (\A k \in 1..Len(r_raw.tools.entries) : r_raw.tools.entries[k].object)
              => EntryForEntry(r_raw.tools.entries, r_req.entries)
        /\ NormalizeToolsValue(r_req) = r_req
        /\ Len(r_req.entries) =
              Cardinality({k \in 1..Len(r_raw.tools.entries) :
                             r_raw.tools.entries[k].object})

(***************************************************************************)
(* Claims about the non-streaming parse (SpecStream)                       *)
(***************************************************************************)
\* The non-streaming handler has returned after the parse step failed.
ParseFailedReturned == m_pc = "done" /\ m_outcome = "parse_failed"

\* The handler leaves the select while the ten seconds are over and the
\* parser goroutine has not finished.
LeavesSelectAfterTimeout ==
    /\ m_pc = "ns_select"
    /\ m_ns.timer = "fired"
    /\ m_ns.parser = "running"
    /\ m_pc' = "ns_respond"

\* C19: when the parse has not finished after the ten seconds, the select
\* returns the timeout error, the handler answers 408, and that answer is
\* the only one, whether or not the goroutine finishes or fails afterwards.
C19_ParseTimeoutAnswered408Once ==
    /\ [][LeavesSelectAfterTimeout => m_ns'.err = "timeout"]_vars
    /\ [](m_ns.err = "timeout" /\ ParseFailedReturned =>
              m_ns.http = 408 /\ m_ns.responses = 1)
    /\ [](m_ns.err = "timeout" => m_ns.responses <= 1 /\ m_ns.result = "nil")

\* Reached: the handler answered 408 once and the goroutine's parse ended
\* in a panic after that.
C19_Witness ==
    /\ ParseFailedReturned
    /\ m_ns.err = "timeout"
    /\ m_ns.parser = "finished"
    /\ m_ns.goErr = "panic"
    /\ m_ns.http = 408
    /\ m_ns.responses = 1

\* C20: in non-streaming mode a parse failure that is not the timeout,
\* which comes before anything was sent to the client, is answered with
\* HTTP 502 as the one response.
C20_ParseFailureAnswered502 ==
    ParseFailedReturned /\ m_ns.err # "timeout" =>
        m_ns.http = 502 /\ m_ns.responses = 1

\* What the handler does answer: 400 when the error is a format error and
\* 500 for any other error or a panic of the parser, as the one response.
ParseFailureAnswered500Or400 ==
    ParseFailedReturned /\ m_ns.err # "timeout" =>
        /\ m_ns.http = IF m_ns.err = "format" THEN 400 ELSE 500
        /\ m_ns.responses = 1

(***************************************************************************)
(* Claims about maskEmail (SpecMask)                                       *)
(***************************************************************************)
\* An e-mail address: a string with exactly one "@".
IsAddress(email) == Cardinality({i \in 1..Len(email) : email[i] = "@"}) = 1

AtSign(email) == CHOOSE i \in 1..Len(email) : email[i] = "@"

LocalPart(email) == SubSeq(email, 1, AtSign(email) - 1)

DomainPart(email) == SubSeq(email, AtSign(email) + 1, Len(email))

\* The positions of the dots of a domain.
Dots(domain) == {i \in 1..Len(domain) : domain[i] = "."}

\* The last label of a domain: what follows its last dot, or the whole
\* domain when it has none.
LastLabel(domain) ==
    IF Dots(domain) = {} THEN domain
    ELSE SubSeq(domain, (CHOOSE i \in Dots(domain) : \A j \in Dots(domain) : j <= i) + 1,
                Len(domain))

EndsWith(text, suffix) ==
    /\ Len(suffix) <= Len(text)
    /\ SubSeq(text, Len(text) - Len(suffix) + 1, Len(text)) = suffix

\* maskEmail's output for `email` has an "@", a local part as long as
\* that of `email`, and ends with the last domain label of `email`.
KeepsShape(email, masked) ==
    /\ IsAddress(masked)
    /\ Len(LocalPart(masked)) = Len(LocalPart(email))
    /\ EndsWith(masked, LastLabel(DomainPart(email)))

\* C21: for every e-mail address maskEmail's output contains "@", has a
\* local part of the same length as the input's, and ends with the
\* input's last domain label unchanged.
C21_MaskKeepsAtLengthAndTLD ==
    e_pc = "done" /\ IsAddress(e_email) => KeepsShape(e_email, e_masked)

\* C21 as amended: the same for the addresses whose domain has at least
\* two labels; with a one-label domain the output keeps the "@" and the
\* length of the local part, and its domain is stars only.
C21_MaskKeepsShapeWithTwoLabels ==
    e_pc = "done" /\ IsAddress(e_email) =>
        IF Dots(DomainPart(e_email)) # {}
        THEN KeepsShape(e_email, e_masked)
        ELSE /\ IsAddress(e_masked)
             /\ Len(LocalPart(e_masked)) = Len(LocalPart(e_email))
             /\ DomainPart(e_masked) = Stars(Len(DomainPart(e_email)))

\* Reached: an address with a six-byte local part and three labels was
\* masked, and one with two labels.
C21_Witness ==
    /\ e_pc = "done"
    /\ e_email = <<"a", "b", "a", "a", "b", "a", "@", "x", ".", "x", "y", ".", "y">>
    /\ e_masked = <<"a", "b", "*", "*", "b", "a", "@", "*", ".", "x", "y", ".", "y">>
    /\ e_other = <<"a", "@", "x", "y", ".", "y">>
    /\ e_maskedOther = <<"*", "@", "*", "*", ".", "y">>

\* The hidden positions of an address: the local part but its first two
\* and last two bytes, the whole local part when it has at most four, and
\* the bytes of the starred labels, which are the only label, the first of
\* two, and all but the last two of three or more.
HiddenPositions(email) ==
    LET at == AtSign(email)
        dots == {i \in (at + 1)..Len(email) : email[i] = "."}
        kept == IF Cardinality(dots) <= 1 THEN dots
                ELSE {i \in dots : Cardinality({j \in dots : j > i}) = 1}
        firstKept == IF kept = {} THEN Len(email) + 1
                     ELSE CHOOSE i \in kept : TRUE
    IN  (IF at - 1 <= 4 THEN 1..(at - 1) ELSE 3..(at - 3))
        \cup {i \in (at + 1)..(firstKept - 1) : email[i] # "."}

\* Two addresses of equal shape: as long as each other, with the "@" and
\* the dots at the same positions.
SameShape(email, other) ==
    /\ Len(email) = Len(other)
    /\ \A i \in 1..Len(email) :
           /\ email[i] = "@" <=> other[i] = "@"
           /\ email[i] = "." <=> other[i] = "."

\* The two addresses differ in hidden bytes only.
DifferOnlyInHidden(email, other) ==
    /\ IsAddress(email)
    /\ IsAddress(other)
    /\ SameShape(email, other)
    /\ \A i \in 1..Len(email) :
           i \notin HiddenPositions(email) => email[i] = other[i]

CallsOf(call) == {i \in 1..Len(m_log) : m_log[i] = call}

\* C22: if SSE initialization fails the streaming handler issues no
\* upstream request, creates no stream context and sends no message_start;
\* and in every run execCWRequest is called only after
\* initializeSSEResponse has succeeded.
C22_NoUpstreamBeforeSSE ==
    /\ CallsOf("initializeSSEResponse failed") # {} =>
           /\ CallsOf("execCWRequest") = {}
           /\ CallsOf("NewStreamProcessorContext") = {}
           /\ \A k \in 1..Len(m_sent) : m_sent[k].type # "message_start"
           /\ m_consumed = <<>>
    /\ \A i \in CallsOf("execCWRequest") :
           \E j \in CallsOf("initializeSSEResponse") : j < i

\* Reached: SSE initialization failed and the handler returned after the
\* error event.
C22_Witness ==
    /\ m_pc = "done"
    /\ m_outcome = "sse_init_failed"
    /\ m_log = <<"initializeSSEResponse failed">>
    /\ m_sent = <<ErrorEvent>>

(***************************************************************************)
(* Claims about the credential store behind the admin API (SpecAdmin)      *)
(***************************************************************************)
ConfigOps == {"get", "add", "update", "delete", "import"}

\* C23: if InitConfigStore returned an error, every config request (GET,
\* POST, PUT, DELETE /api/config and POST /api/config/import) is answered
\* with the 'store not initialized' 500 error, and the credential file is
\* never written.
C23_FailedInitLocksTheStore ==
    /\ [](a_init.err # "nil" /\ a_resp.op \in ConfigOps =>
              a_resp = NotInitialized(a_resp.op))
    /\ [][a_init.err # "nil" => a_file' = a_file]_vars

\* What the handlers do after a failed InitConfigStore: the pointer is
\* set, so they never answer 'store not initialized', and they serve the
\* requests from a list that started empty.
FailedInitServesEmptyStore ==
    /\ a_resp # NotInitialized(a_resp.op)
    /\ a_init.err # "nil" /\ a_started = 0 => a_configs = <<>>

\* A mutation of the store has returned: the handler answered with the
\* status it derives from AddConfig's, UpdateConfig's or DeleteConfig's
\* result.
MutationReturned ==
    /\ a_resp.op \in {"add", "update", "delete"}
    /\ a_resp.status \in {200, 404, 500}

\* C24: after AddConfig, UpdateConfig or DeleteConfig returns, with
\* success or with an error, the in-memory list equals the list stored
\* in the file, and a mutation whose save failed leaves the in-memory
\* list as it was before the call.
C24_MemoryEqualsFileAfterMutation ==
    MutationReturned =>
        /\ a_configs = FileRecords(a_file)
        /\ a_resp.status = 500 => a_configs = a_log.before.configs

\* What holds: a mutation that succeeded leaves the list it wrote in
\* both places.
SucceededMutationIsInBoth ==
    MutationReturned /\ a_resp.status = 200 => a_configs = FileRecords(a_file)

\* The import loop has run over every input; the closing c.JSON follows.
ImportLoopDone == a_pc = "import" /\ a_req.i > Len(a_req.list)

\* "total", "success" and "failed" of the import response.
ImportTotals ==
    [total |-> Len(a_req.list),
     success |-> CountStatus(a_items, "success"),
     failed |-> Len(a_req.list) - CountStatus(a_items, "success")]

\* The results are one per input, in input order, each with its input's
\* position as index, and the totals add up.
ImportResultsPerInput ==
    ImportLoopDone =>
        /\ Len(a_items) = Len(a_req.list)
        /\ \A k \in 1..Len(a_items) : a_items[k].index = k - 1
        /\ ImportTotals.total = Len(a_req.list)
        /\ ImportTotals.success + ImportTotals.failed = ImportTotals.total

\* The store grew by as many records as there are successes.
ImportAppendsSuccesses ==
    ImportLoopDone =>
        Len(a_configs) = Len(a_log.before.configs) + ImportTotals.success

\* A pass of the loop whose input has an empty refresh token, fails to
\* refresh, is banned or fails the usage probe leaves the store and the
\* file as they were.
RejectedInputAddsNothing ==
    a_pc = "import" /\ Len(a_items') = Len(a_items) + 1
    /\ a_items'[Len(a_items')].status # "success"
    /\ a_items'[Len(a_items')].message.msg # "save failed"
    => a_configs' = a_configs /\ a_file' = a_file

\* C25: POST /api/config/import returns one result per input, in input
\* order and with the input's position as index, total is the number of
\* inputs and success + failed = total; the store grows by exactly
\* `success` records; and an input with an empty refresh token, a failed
\* refresh, a ban or a failed usage probe adds no record.
C25_ImportResultsAndStore ==
    /\ [](ImportResultsPerInput /\ ImportAppendsSuccesses)
    /\ [][RejectedInputAddsNothing]_vars

\* What holds: the results and the totals, the rejected inputs, and the
\* store grown by the successes and by the inputs whose save failed.
ImportAppendsBeforeSaving ==
    /\ [](ImportResultsPerInput)
    /\ [](ImportLoopDone =>
             Len(a_configs) = Len(a_log.before.configs) + ImportTotals.success
                 + Cardinality({k \in 1..Len(a_items) :
                                   a_items[k].message.msg = "save failed"}))
    /\ [][RejectedInputAddsNothing]_vars

\* `after` is `before` without its record at the 0-based position `index`,
\* the others unchanged and in the same order.
RemovedAt(before, after, index) ==
    /\ Len(after) = Len(before) - 1
    /\ \A k \in 1..Len(after) :
           after[k] = IF k <= index THEN before[k] ELSE before[k + 1]

\* `after` is `before` with `config` at position `index` and no other
\* change.
ChangedAt(before, after, index, config) ==
    /\ Len(after) = Len(before)
    /\ \A k \in 1..Len(after) :
           after[k] = IF k = index + 1 THEN config ELSE before[k]

\* `after` is `before` with `config` added at the end.
AppendedTo(before, after, config) ==
    /\ Len(after) = Len(before) + 1
    /\ after[Len(after)] = config
    /\ \A k \in 1..Len(before) : after[k] = before[k]

\* The list the last handler left, against the one it found.
HandlerFrame ==
    LET before == a_log.before.configs
    IN  /\ a_resp.op = "add" /\ a_resp.status = 200 =>
               AppendedTo(before, a_configs, ValidateConfig(a_log.body).config)
        /\ a_resp.op = "update" /\ a_resp.status = 200 =>
               \E i \in 0..(Len(before) - 1) :
                   ChangedAt(before, a_configs, i, ValidateConfig(a_log.body).config)
        /\ a_resp.op = "delete" /\ a_resp.status = 200 =>
               \E i \in 0..(Len(before) - 1) : RemovedAt(before, a_configs, i)

RECURSIVE EstimatedSum(_)
EstimatedSum(content) ==
    IF content = <<>> THEN 0
    ELSE EstimateBlockTokens(content[Len(content)])
         + EstimatedSum(SubSeq(content, 1, Len(content) - 1))

\* The non-streaming handler has answered 200 with a message.
NsAnswered == m_pc = "done" /\ m_outcome = "ok" /\ m_ns.http = 200

\* C27: usage.output_tokens of the non-streaming response is the sum of
\* the estimator's values over the content blocks returned, raised to 1
\* when the sum is below 1 and there is a block; so it is at least 1 when
\* the content array is not empty and 0 when it is.
C27_OutputTokensOverReturnedBlocks ==
    NsAnswered =>
        /\ m_ns.output_tokens =
               IF EstimatedSum(m_ns.content) < 1 /\ Len(m_ns.content) > 0 THEN 1
               ELSE EstimatedSum(m_ns.content)
        /\ m_ns.content # <<>> => m_ns.output_tokens >= 1
        /\ m_ns.content = <<>> => m_ns.output_tokens = 0

\* Reached: a response whose only block is a text the estimator values at
\* 0 reports one output token.
C27_Witness ==
    /\ NsAnswered
    /\ Len(m_ns.content) = 1
    /\ m_ns.content[1].type = "text"
    /\ EstimatedSum(m_ns.content) = 0
    /\ m_ns.output_tokens = 1

\* The handler leaves the select.
LeavesSelect == m_pc = "ns_select" /\ m_pc' = "ns_respond"

\* Leaving the select the handler either takes the goroutine's result and
\* error, and then the goroutine has closed done, or takes the timeout
\* error and a nil result, whatever the goroutine has written.
ReadsOnlyAfterDone ==
    LeavesSelect =>
        \/ /\ m_ns.parser = "finished"
           /\ m_ns'.result = m_ns.goResult
           /\ m_ns'.err = m_ns.goErr
        \/ /\ m_ns.timer = "fired"
           /\ m_ns'.result = "nil"
           /\ m_ns'.err = "timeout"

\* C28: the non-streaming handler reads the parse result only after the
\* parser goroutine has signalled completion; a panic inside the parser
\* becomes a parse-error response, after which the handler returns as
\* usual; and on timeout the handler does not read the goroutine's result.
C28_ParserGoroutineIsolated ==
    /\ [][ReadsOnlyAfterDone]_vars
    /\ [](m_ns.err = "panic" /\ ParseFailedReturned =>
              m_ns.http = 500 /\ m_ns.responses = 1)
    /\ [](m_ns.err = "panic" => m_ns.goErr = "panic" /\ m_ns.parser = "finished")
    /\ [](m_ns.err = "timeout" => m_ns.result = "nil")

\* Reached: the parser panicked and the handler answered with the parse
\* error and returned.
C28_Witness ==
    /\ ParseFailedReturned
    /\ m_ns.err = "panic"
    /\ m_ns.result = "nil"
    /\ m_ns.http = 500
    /\ m_ns.responses = 1

(***************************************************************************)
(* Claims about GET /api/tokens on an empty pool (SpecAdmin)               *)
(***************************************************************************)
\* GET /api/tokens found a credential file whose records, if any, are all
\* disabled, and a KIRO_AUTH_TOKEN that yields no valid record either.
NoCredentialLeft ==
    /\ TokensAnswered
    /\ a_log.before.file.state = "complete"
    /\ \A k \in 1..Len(FileRecords(a_log.before.file)) :
           FileRecords(a_log.before.file)[k].Disabled
    /\ OwedConfigs(a_log.before.file, a_env) = <<>>

\* C29: once every credential is deleted or disabled and no source yields
\* a valid one, GET /api/tokens answers 200 with total_tokens = 0,
\* active_tokens = 0 and an empty tokens list.
C29_EmptyPoolAnswers200 ==
    NoCredentialLeft =>
        /\ a_resp.status = 200
        /\ a_resp.items = <<>>
        /\ a_resp.count = 0

\* What GET /api/tokens answers then, and whenever no source yields a
\* valid record: 500 with the loader's error.
EmptyPoolAnswers500 ==
    TokensAnswered /\ OwedConfigs(a_log.before.file, a_env) = <<>> =>
        /\ a_resp.status = 500
        /\ a_resp.error.msg = "load failed"

=============================================================================
